---- MODULE Spec2Model ----
(***************************************************************************)
(* Model of the grafana-reporter backend (pkg/plugin/app.go): the job      *)
(* store, the cron registrations, the jobs file and the execution          *)
(* pipeline.  Every critical section of the Go code (the statements        *)
(* between a Lock/RLock of app.mu and its Unlock) is one atomic step;      *)
(* statements that touch only locals of a handler are merged into the      *)
(* step of the next critical section.  net/http serves every request on a  *)
(* goroutine of its own: a member of Procs serves one request and ends.    *)
(*                                                                         *)
(* Specifications: Spec (store, scheduler and job handlers), SpecExec      *)
(* (executions and test emails), SpecSnap (executions while the store      *)
(* changes), SpecConfig (GET and POST /config, maskString), and SpecLocks  *)
(* (every Lock and Unlock of app.mu and app.configMu as a step of its own).*)
(***************************************************************************)
EXTENDS Integers, Sequences, FiniteSets, TLC

(* ------------------------------ bounds -------------------------------- *)
\* HTTP requests served in a run, each by a handler goroutine of its own
NumRequests == 2
\* explicit job ids a request may carry: "j1" .. "j<NumIds>"
NumIds == 1
\* values time.Now().UnixNano() may return when an id is generated
NumStamps == 2
\* executions (scheduled firings and on-demand triggers) ever launched
MaxExecs == 2
\* bytes of the longest secret a config may hold
MaxSecretLen == 6
\* goroutines beside NewApp's in the lock-level view
NumWorkers == 2

Procs == 1..NumRequests
ExplicitIds == {"j" \o ToString(i) : i \in 1..NumIds}
Stamps == 1..NumStamps
GenID(t) == "job-" \o ToString(t)
JobIds == ExplicitIds \cup {GenID(t) : t \in Stamps}

(* ------------------------- cron expressions --------------------------- *)
\* A cron expression is the sequence of its whitespace-separated fields;
\* a field is a number, or a negative number standing for "*".
Star == 0 - 1
FieldBounds ==
    << [lo |-> 0, hi |-> 59], [lo |-> 0, hi |-> 23], [lo |-> 1, hi |-> 31],
       [lo |-> 1, hi |-> 12], [lo |-> 0, hi |-> 6] >>

\* cron.ParseStandard(job.Cron) returns no error; cron.New() uses the same
\* standard parser in AddFunc.
CronParses(c) ==
    /\ Len(c) = Len(FieldBounds)
    /\ \A i \in 1..Len(c) :
          c[i] < 0 \/ (c[i] >= FieldBounds[i].lo /\ c[i] <= FieldBounds[i].hi)

CronDaily9 == <<0, 9, Star, Star, Star>>
CronHourly == <<0, Star, Star, Star, Star>>
CronMinute60 == <<60, Star, Star, Star, Star>>
CronEmpty == <<>>

(* ------------------------------- jobs --------------------------------- *)
\* The fields of Job the handlers, the scheduler and the store look at.
Job(id, cron, uid, rcpts, subject) ==
    [ID |-> id, Cron |-> cron, DashboardUID |-> uid,
     Recipients |-> rcpts, Subject |-> subject]

WithID(job, id) == [job EXCEPT !.ID = id]

\* request bodies (the id is set separately)
BodyA == Job("", CronDaily9, "abc123", <<"a@example.com">>, "A")
BodyB == Job("", CronHourly, "abc123", <<"b@example.com">>, "B")
BodyBadCron == Job("", CronMinute60, "abc123", <<"a@example.com">>, "A")
BodyNoCron == Job("", CronEmpty, "abc123", <<"a@example.com">>, "A")
BodyNoRecipients == Job("", CronDaily9, "abc123", <<>>, "A")
BodyNoDashboard == Job("", CronHourly, "", <<"a@example.com">>, "A")
Bodies == {BodyA, BodyB, BodyBadCron, BodyNoCron, BodyNoRecipients, BodyNoDashboard}

\* Go maps: a function whose domain is the set of keys present
Put_DropsOthers(m, k, v) == [x \in {k} |-> v]
Put(m, k, v) == [x \in (DOMAIN m) \cup {k} |-> IF x = k THEN v ELSE m[x]]
Del(m, k) == [x \in (DOMAIN m) \ {k} |-> m[x]]
EmptyMap == [x \in {} |-> 0]
Values(m) == {m[k] : k \in DOMAIN m}
Range(s) == {s[i] : i \in 1..Len(s)}

VARIABLES
    boot,         \* position of NewApp: "load", "schedule", "running"
    pending,      \* NewApp's scheduling loop: ids of app.jobs not yet visited
    jobs,         \* app.jobs: job id -> Job
    cronIDs,      \* app.cronIDs: job id -> cron.EntryID
    entries,      \* the cron engine's entries: EntryID -> Job captured by the closure
    nextID,       \* the cron engine's id counter
    jobsFile,     \* the jobs file: [state, recs]
    writeFailed,  \* some os.WriteFile of the jobs file has returned an error
    pc,           \* per handler goroutine: its position
    req,          \* per handler goroutine: the request it serves
    resp,         \* per handler goroutine: the response written
    snap,         \* per handler goroutine: the slice saveJobs copied
    config,       \* app.config
    configFile,   \* the config file: [state, config]
    threads,      \* per goroutine of the lock-level view: [op, at, held]
    execs,        \* the invocations of executeJob, in the order they were launched
    args,         \* the arguments of the call under study, [fn |-> "none"] if none
    sent,         \* the messages handed to smtp.SendMail, in order
    fetched       \* the URLs built for a job, in order

wire == <<args, sent, fetched>>

vars == <<boot, pending, wire, jobs, cronIDs, entries, nextID, jobsFile, writeFailed,
          pc, req, resp, snap, config, configFile, threads, execs>>

env == <<boot, pending, wire, config, configFile, threads, execs>>
store == <<jobs, cronIDs, entries, nextID, jobsFile, writeFailed>>

\* no call under study, nothing sent and nothing fetched
NoArgs == [fn |-> "none"]
Idle == args = NoArgs /\ sent = <<>> /\ fetched = <<>>

(* ---------------------------- jobs file ------------------------------- *)
FileMissing == [state |-> "missing", recs |-> <<>>]
FileCorrupt == [state |-> "corrupt", recs |-> <<>>]
FileOf(recs) == [state |-> "ok", recs |-> recs]

\* the files NewApp may find at startup
StartFiles ==
    { FileMissing, FileCorrupt, FileOf(<<>>),
      FileOf(<<WithID(BodyA, "j1")>>),
      FileOf(<<WithID(BodyA, "j1"), WithID(BodyBadCron, GenID(1))>>) }

\* for _, job := range jobs { app.jobs[job.ID] = job }
RECURSIVE LoadInto(_, _)
LoadInto(m, recs) ==
    IF recs = <<>> THEN m
    ELSE LoadInto(Put(m, Head(recs).ID, Head(recs)), Tail(recs))

\* the orders in which ranging over a map may visit its values
Orders(m) ==
    { s \in [1..Cardinality(DOMAIN m) -> Values(m)] :
        \A k \in DOMAIN m : \E i \in 1..Cardinality(DOMAIN m) : s[i] = m[k] }

(* ------------------------------- config ------------------------------- *)
\* A secret (the API key, the SMTP password) is the sequence of its bytes.
Chars == {"a", "b"}
Secrets == UNION {[1..n -> Chars] : n \in 0..MaxSecretLen}

\* Config as NewApp leaves it: the file's values, else the environment's
Config(url, key, host, pass) ==
    [GrafanaURL |-> url, GrafanaAPIKey |-> key, SMTPHost |-> host,
     SMTPPassword |-> pass]
DefaultConfig == Config("http://localhost:3000", <<>>, "smtp.example.com", <<>>)
\* SMTP_HOST is not set and the config file names no host
NoHostConfig == Config("http://localhost:3000", <<>>, "", <<>>)

\* the config file: absent (loadConfig then keeps the defaults), or the JSON
\* of a Config
ConfigFileMissing == [state |-> "missing", config |-> DefaultConfig]
ConfigFileOf(c) == [state |-> "ok", config |-> c]

\* the goroutines of the lock-level view: NewApp's and the workers'
Constructor == 0
Workers == 1..NumWorkers
Threads == {Constructor} \cup Workers
NotStarted == [op |-> "none", at |-> 1, held |-> {}]

(* ------------------------------ startup ------------------------------- *)
NoReq == [op |-> "none", jobID |-> "", job |-> BodyA]
NoResp == [code |-> 0, jobs |-> {}]

Init ==
    /\ boot = "load"
    /\ pending = {}
    /\ jobs = EmptyMap
    /\ cronIDs = EmptyMap
    /\ entries = EmptyMap
    /\ nextID = 0
    /\ jobsFile \in StartFiles
    /\ writeFailed = FALSE
    /\ pc = [p \in Procs |-> "new"]
    /\ req = [p \in Procs |-> NoReq]
    /\ resp = [p \in Procs |-> NoResp]
    /\ snap = [p \in Procs |-> EmptyMap]
    /\ config = DefaultConfig
    /\ configFile = ConfigFileMissing
    /\ threads = [t \in Threads |-> NotStarted]
    /\ execs = <<>>
    /\ Idle

handlers == <<pc, req, resp, snap>>

\* loadJobs as called by NewApp: a missing file is created empty (or the
\* write fails), a file that cannot be read or parsed leaves the store empty
\* (NewApp logs the error and goes on), a parsed file fills the store
loadJobs ==
    /\ boot = "load"
    /\ boot' = "schedule"
    /\ IF jobsFile.state = "missing"
         THEN /\ \/ jobsFile' = FileOf(<<>>) /\ writeFailed' = writeFailed
                 \/ jobsFile' = jobsFile /\ writeFailed' = TRUE
              /\ jobs' = jobs
         ELSE /\ jobsFile' = jobsFile
              /\ writeFailed' = writeFailed
              /\ jobs' = IF jobsFile.state = "corrupt" THEN jobs
                         ELSE LoadInto(jobs, jobsFile.recs)
    /\ pending' = DOMAIN jobs'
    /\ UNCHANGED <<cronIDs, entries, nextID, handlers, config, configFile, threads, execs, wire>>

(* ----------------------------- scheduler ------------------------------ *)
\* scheduleJob that adds the new entry and leaves the old one in the engine
scheduleJob_Additive(job) ==
    IF CronParses(job.Cron)
      THEN /\ nextID' = nextID + 1
           /\ entries' = Put(entries, nextID + 1, job)
           /\ cronIDs' = Put(cronIDs, job.ID, nextID + 1)
      ELSE /\ nextID' = nextID
           /\ entries' = entries
           /\ cronIDs' = cronIDs

\* scheduleJob(job): one critical section under app.mu
scheduleJob(job) ==
    LET had == job.ID \in DOMAIN cronIDs
        ents == IF had THEN Del(entries, cronIDs[job.ID]) ELSE entries
        cids == IF had THEN Del(cronIDs, job.ID) ELSE cronIDs
    IN  IF CronParses(job.Cron)
          THEN /\ nextID' = nextID + 1
               /\ entries' = Put(ents, nextID + 1, job)
               /\ cronIDs' = Put(cids, job.ID, nextID + 1)
          ELSE /\ nextID' = nextID
               /\ entries' = ents
               /\ cronIDs' = cids

\* unscheduleJob that removes the entry and keeps the handle in cronIDs
unscheduleJob_KeepsHandle(jobID) ==
    IF jobID \in DOMAIN cronIDs
      THEN /\ entries' = Del(entries, cronIDs[jobID])
           /\ cronIDs' = cronIDs
      ELSE /\ entries' = entries
           /\ cronIDs' = cronIDs

\* unscheduleJob(jobID): one critical section under app.mu
unscheduleJob(jobID) ==
    IF jobID \in DOMAIN cronIDs
      THEN /\ entries' = Del(entries, cronIDs[jobID])
           /\ cronIDs' = Del(cronIDs, jobID)
      ELSE /\ entries' = entries
           /\ cronIDs' = cronIDs

\* NewApp: for _, job := range app.jobs { scheduleJob(job) }, one job per
\* step in any order; a failure is logged and the loop goes on
scheduleLoaded ==
    /\ boot = "schedule"
    /\ IF pending = {}
         THEN /\ boot' = "running"
              /\ UNCHANGED <<pending, cronIDs, entries, nextID>>
         ELSE \E id \in pending :
                /\ scheduleJob(jobs[id])
                /\ pending' = pending \ {id}
                /\ boot' = boot
    /\ UNCHANGED <<jobs, jobsFile, writeFailed, handlers, config, configFile, threads, execs, wire>>

(* ------------------------------ handlers ------------------------------ *)
Request(op, id, job) == [op |-> op, jobID |-> id, job |-> job]
Reply(code, js) == [code |-> code, jobs |-> js]

\* a request arrives: the mux is set up when NewApp is done; the requests
\* are numbered in the order of their arrival
Accepting(p) ==
    /\ boot = "running"
    /\ pc[p] = "new"
    /\ \A q \in Procs : q < p => pc[q] # "new"

\* the handler returns without touching the store
Answer(p, r, reply) ==
    /\ pc' = [pc EXCEPT ![p] = "done"]
    /\ req' = [req EXCEPT ![p] = r]
    /\ resp' = [resp EXCEPT ![p] = reply]
    /\ UNCHANGED <<snap, store>>

\* the handler goes on to its next critical section
Goto(p, loc) ==
    /\ pc' = [pc EXCEPT ![p] = loc]
    /\ UNCHANGED <<req, resp, snap>>

\* createJob, updateJob: "Validate cron expression"
validate_Skipped(job) == TRUE
validate(job) == CronParses(job.Cron)

\* updateJob, deleteJob, executeJobHandler, getJob: _, exists := app.jobs[jobID]
exists(jobID) == jobID \in DOMAIN jobs

\* listJobs: the slice of all the jobs of the map, copied under the read lock
ListResult == Values(jobs)

\* listJobs
listJobs(p) ==
    /\ Accepting(p)
    /\ Answer(p, Request("list", "", BodyA), Reply(200, ListResult))
    /\ UNCHANGED env

\* getJob
getJob(p, jobID) ==
    /\ Accepting(p)
    /\ Answer(p, Request("get", jobID, BodyA),
              IF exists(jobID) THEN Reply(200, {jobs[jobID]})
              ELSE Reply(404, {}))
    /\ UNCHANGED env

\* createJob, updateJob: the body is not the JSON of a Job
undecodable(p, op, jobID) ==
    /\ Accepting(p)
    /\ Answer(p, Request(op, jobID, BodyA), Reply(400, {}))
    /\ UNCHANGED env

\* createJob up to the end of its first critical section (app.jobs[job.ID] = job)
createJob(p, body, t) ==
    LET job == IF body.ID = "" THEN WithID(body, GenID(t)) ELSE body
        r == Request("create", job.ID, job)
    IN  /\ Accepting(p)
        /\ IF ~validate(job)
             THEN Answer(p, r, Reply(400, {}))
             ELSE /\ jobs' = Put(jobs, job.ID, job)
                  /\ pc' = [pc EXCEPT ![p] = "create_schedule"]
                  /\ req' = [req EXCEPT ![p] = r]
                  /\ resp' = [resp EXCEPT ![p] = NoResp]
                  /\ UNCHANGED <<snap, cronIDs, entries, nextID, jobsFile, writeFailed>>
        /\ UNCHANGED env

\* createJob and updateJob: the call of scheduleJob; an error ends the request
\* before saveJobs
scheduleStep(p) ==
    /\ pc[p] \in {"create_schedule", "update_schedule"}
    /\ scheduleJob(req[p].job)
    /\ IF CronParses(req[p].job.Cron)
         THEN /\ pc' = [pc EXCEPT ![p] = "save_copy"]
              /\ resp' = resp
         ELSE /\ pc' = [pc EXCEPT ![p] = "done"]
              /\ resp' = [resp EXCEPT ![p] = Reply(500, {})]
    /\ UNCHANGED <<env, jobs, jobsFile, writeFailed, req, snap>>

\* an updateJob that leaves the id of the body as the client sent it
updateJob_KeepsBodyId(p, jobID, body) ==
    LET r == Request("update", jobID, body)
    IN  /\ Accepting(p)
        /\ IF ~validate(body)
             THEN Answer(p, r, Reply(400, {}))
             ELSE IF ~exists(jobID)
             THEN Answer(p, r, Reply(404, {}))
             ELSE /\ pc' = [pc EXCEPT ![p] = "update_put"]
                  /\ req' = [req EXCEPT ![p] = r]
                  /\ resp' = [resp EXCEPT ![p] = NoResp]
                  /\ UNCHANGED <<snap, store>>
        /\ UNCHANGED env

\* updateJob up to the end of its first critical section (the existence check)
updateJob(p, jobID, body) ==
    LET job == WithID(body, jobID)
        r == Request("update", jobID, job)
    IN  /\ Accepting(p)
        /\ IF ~validate(job)
             THEN Answer(p, r, Reply(400, {}))
             ELSE IF ~exists(jobID)
             THEN Answer(p, r, Reply(404, {}))
             ELSE /\ pc' = [pc EXCEPT ![p] = "update_put"]
                  /\ req' = [req EXCEPT ![p] = r]
                  /\ resp' = [resp EXCEPT ![p] = NoResp]
                  /\ UNCHANGED <<snap, store>>
        /\ UNCHANGED env

\* updateJob: app.jobs[jobID] = job
updatePut(p) ==
    /\ pc[p] = "update_put"
    /\ jobs' = Put(jobs, req[p].jobID, req[p].job)
    /\ Goto(p, "update_schedule")
    /\ UNCHANGED <<env, cronIDs, entries, nextID, jobsFile, writeFailed>>

\* deleteJob without the existence check
deleteJob_NoCheck(p, jobID) ==
    /\ Accepting(p)
    /\ pc' = [pc EXCEPT ![p] = "delete_unschedule"]
    /\ req' = [req EXCEPT ![p] = Request("delete", jobID, BodyA)]
    /\ resp' = [resp EXCEPT ![p] = NoResp]
    /\ UNCHANGED <<snap, store, env>>

\* deleteJob up to the end of its first critical section (the existence check)
deleteJob(p, jobID) ==
    LET r == Request("delete", jobID, BodyA)
    IN  /\ Accepting(p)
        /\ IF ~exists(jobID)
             THEN Answer(p, r, Reply(404, {}))
             ELSE /\ pc' = [pc EXCEPT ![p] = "delete_unschedule"]
                  /\ req' = [req EXCEPT ![p] = r]
                  /\ resp' = [resp EXCEPT ![p] = NoResp]
                  /\ UNCHANGED <<snap, store>>
        /\ UNCHANGED env

\* deleteJob: app.unscheduleJob(jobID)
deleteUnschedule(p) ==
    /\ pc[p] = "delete_unschedule"
    /\ unscheduleJob(req[p].jobID)
    /\ Goto(p, "delete_remove")
    /\ UNCHANGED <<env, jobs, nextID, jobsFile, writeFailed>>

\* deleteJob: delete(app.jobs, jobID)
deleteRemove(p) ==
    /\ pc[p] = "delete_remove"
    /\ jobs' = Del(jobs, req[p].jobID)
    /\ Goto(p, "save_copy")
    /\ UNCHANGED <<env, cronIDs, entries, nextID, jobsFile, writeFailed>>

\* saveJobs: the copy of app.jobs taken under the read lock
saveJobsCopy(p) ==
    /\ pc[p] = "save_copy"
    /\ snap' = [snap EXCEPT ![p] = jobs]
    /\ pc' = [pc EXCEPT ![p] = "save_write"]
    /\ UNCHANGED <<env, store, req, resp>>

\* the status the handler answers with once saveJobs is over (its error is
\* only logged)
Success(r) ==
    IF r.op = "create" THEN Reply(201, {r.job})
    ELSE IF r.op = "update" THEN Reply(200, {r.job})
    ELSE Reply(204, {})

\* a saveJobs whose failed write takes the request's job out of the store
saveJobsWrite_RollsBack(p) ==
    /\ pc[p] = "save_write"
    /\ \/ \E s \in Orders(snap[p]) :
            /\ jobsFile' = FileOf(s)
            /\ writeFailed' = writeFailed
            /\ jobs' = jobs
       \/ /\ jobsFile' = jobsFile
          /\ writeFailed' = TRUE
          /\ jobs' = IF req[p].jobID \in DOMAIN jobs THEN Del(jobs, req[p].jobID)
                     ELSE jobs
    /\ pc' = [pc EXCEPT ![p] = "done"]
    /\ resp' = [resp EXCEPT ![p] = Success(req[p])]
    /\ snap' = [snap EXCEPT ![p] = EmptyMap]
    /\ UNCHANGED <<env, cronIDs, entries, nextID, req>>

\* saveJobs: os.WriteFile with the copy, after the lock is released; then the
\* handler's response
saveJobsWrite(p) ==
    /\ pc[p] = "save_write"
    /\ \/ \E s \in Orders(snap[p]) :
            /\ jobsFile' = FileOf(s)
            /\ writeFailed' = writeFailed
       \/ /\ jobsFile' = jobsFile
          /\ writeFailed' = TRUE
    /\ pc' = [pc EXCEPT ![p] = "done"]
    /\ resp' = [resp EXCEPT ![p] = Success(req[p])]
    /\ snap' = [snap EXCEPT ![p] = EmptyMap]
    /\ UNCHANGED <<env, jobs, cronIDs, entries, nextID, req>>

(* ----------------------------- executions ----------------------------- *)
\* an invocation of executeJob(job): the job it was given, who launched it,
\* the handler that waits for it (0 for none), where it is, what the render
\* request and the SMTP send came to, the error returned ("" for nil), and
\* the jobs whose fields went into each HTTP request and each SMTP send;
\* renderCfg and sendCfg are the locals of renderReport and sendEmail that
\* hold what they read of app.config (<<>> before the read)
Exec(job, by) ==
    [job |-> job, by |-> by, caller |-> 0, stage |-> "render_config",
     http |-> "none", smtp |-> "none", err |-> "",
     rendered |-> <<>>, mailed |-> <<>>, renderCfg |-> <<>>, sendCfg |-> <<>>]

\* the job whose fields renderReport and sendEmail use: their parameter, the
\* copy executeJob was called with
JobOf_FromStore(e) ==
    IF execs[e].job.ID \in DOMAIN jobs THEN jobs[execs[e].job.ID] ELSE execs[e].job
JobOf(e) == execs[e].job

ExecIds == 1..Len(execs)

\* an executeJobHandler that answers only when the execution is over
executeJobHandler_Waits(p, jobID) ==
    LET r == Request("execute", jobID, BodyA)
    IN  /\ Accepting(p)
        /\ IF ~exists(jobID)
             THEN /\ Answer(p, r, Reply(404, {}))
                  /\ execs' = execs
             ELSE /\ execs' = Append(execs, [Exec(jobs[jobID], "manual") EXCEPT
                                               !.caller = p])
                  /\ pc' = [pc EXCEPT ![p] = "execute_wait"]
                  /\ req' = [req EXCEPT ![p] = r]
                  /\ resp' = [resp EXCEPT ![p] = NoResp]
                  /\ UNCHANGED <<snap, store>>
        /\ UNCHANGED <<boot, pending, wire, config, configFile, threads>>

\* executeJobHandler: the lookup under the read lock, the go statement and
\* the acknowledgement
executeJobHandler(p, jobID) ==
    LET r == Request("execute", jobID, BodyA)
    IN  /\ Accepting(p)
        /\ IF ~exists(jobID)
             THEN /\ Answer(p, r, Reply(404, {}))
                  /\ execs' = execs
             ELSE /\ execs' = Append(execs, Exec(jobs[jobID], "manual"))
                  /\ pc' = [pc EXCEPT ![p] = "done"]
                  /\ req' = [req EXCEPT ![p] = r]
                  /\ resp' = [resp EXCEPT ![p] = Reply(200, {})]
                  /\ UNCHANGED <<snap, store>>
        /\ UNCHANGED <<boot, pending, wire, config, configFile, threads>>

\* a cron engine that drops an entry once it has run
cronFire_OneShot(id) ==
    /\ id \in DOMAIN entries
    /\ execs' = Append(execs, Exec(entries[id], "cron"))
    /\ entries' = Del(entries, id)
    /\ cronIDs' = Del(cronIDs, entries[id].ID)
    /\ UNCHANGED <<boot, pending, wire, config, configFile, threads, jobs, nextID,
                   jobsFile, writeFailed, handlers>>

\* a cron engine that skips a firing while an execution of the job is running
cronFire_SkipsRunning(id) ==
    /\ id \in DOMAIN entries
    /\ \A e \in 1..Len(execs) :
         execs[e].job.ID = entries[id].ID => execs[e].stage = "done"
    /\ execs' = Append(execs, Exec(entries[id], "cron"))
    /\ UNCHANGED <<boot, pending, wire, config, configFile, threads, store, handlers>>

\* the cron engine runs the closure scheduleJob registered under entry id
cronFire(id) ==
    /\ id \in DOMAIN entries
    /\ execs' = Append(execs, Exec(entries[id], "cron"))
    /\ UNCHANGED <<boot, pending, wire, config, configFile, threads, store, handlers>>

\* renderReport: the read of app.config under configMu
renderConfig(e) ==
    /\ execs[e].stage = "render_config"
    /\ execs' = [execs EXCEPT ![e].stage = "render_http", ![e].renderCfg = <<config>>]
    /\ UNCHANGED <<boot, pending, wire, config, configFile, threads, store, handlers>>

\* what client.Do and the read of the response may come to
HTTPOutcomes == {"ok", "error", "status", "readerr"}

\* renderReport returns an error
renderFailed_StatusIgnored(outcome) == outcome \notin {"ok", "status"}
renderFailed(outcome) == outcome # "ok"

\* a renderReport that asks once more after a failed request
renderHTTP_Retries(e) ==
    /\ execs[e].stage = "render_http"
    /\ \E outcome \in HTTPOutcomes :
         execs' = [execs EXCEPT ![e].http = outcome,
                     ![e].rendered = Append(@, JobOf(e)),
                     ![e].stage = IF ~renderFailed(outcome) THEN "send_config"
                                  ELSE IF Len(execs[e].rendered) = 0 THEN "render_http"
                                  ELSE "done",
                     ![e].err = IF renderFailed(outcome) THEN "render" ELSE ""]
    /\ UNCHANGED <<boot, pending, wire, config, configFile, threads, store, handlers>>

\* renderReport: the HTTP request and its outcome; executeJob returns the
\* error, or goes on to sendEmail
renderHTTP(e) ==
    /\ execs[e].stage = "render_http"
    /\ \E outcome \in HTTPOutcomes :
         execs' = [execs EXCEPT ![e].http = outcome,
                     ![e].rendered = Append(@, JobOf(e)),
                     ![e].stage = IF renderFailed(outcome) THEN "done" ELSE "send_config",
                     ![e].err = IF renderFailed(outcome) THEN "render" ELSE ""]
    /\ UNCHANGED <<boot, pending, wire, config, configFile, threads, store, handlers>>

\* sendEmail has returned err: executeJob returns it to the closure or the
\* goroutine that called it, which logs it; handleTestEmail answers with it
Returned(e, err) ==
    LET p == execs[e].caller
    IN  IF p = 0 THEN UNCHANGED handlers
        ELSE /\ pc' = [pc EXCEPT ![p] = "done"]
             /\ resp' = [resp EXCEPT ![p] = Reply(IF err = "" THEN 200 ELSE 500, {})]
             /\ UNCHANGED <<req, snap>>

\* a sendEmail that is handed the config renderReport read, when there was
\* a render
sendConfig_ReadsOnce(e) ==
    LET cfg == IF execs[e].renderCfg = <<>> THEN config ELSE execs[e].renderCfg[1]
    IN  /\ execs[e].stage = "send_config"
        /\ IF cfg.SMTPHost = ""
             THEN /\ execs' = [execs EXCEPT ![e].stage = "done", ![e].smtp = "nohost",
                                             ![e].err = "send", ![e].sendCfg = <<cfg>>]
                  /\ Returned(e, "send")
             ELSE /\ execs' = [execs EXCEPT ![e].stage = "smtp", ![e].sendCfg = <<cfg>>]
                  /\ UNCHANGED handlers
        /\ UNCHANGED <<boot, pending, wire, config, configFile, threads, store>>

\* sendEmail: the read of app.config under configMu and the check of the host
sendConfig(e) ==
    /\ execs[e].stage = "send_config"
    /\ IF config.SMTPHost = ""
         THEN /\ execs' = [execs EXCEPT ![e].stage = "done", ![e].smtp = "nohost",
                                         ![e].err = "send", ![e].sendCfg = <<config>>]
              /\ Returned(e, "send")
         ELSE /\ execs' = [execs EXCEPT ![e].stage = "smtp", ![e].sendCfg = <<config>>]
              /\ UNCHANGED handlers
    /\ UNCHANGED <<boot, pending, wire, config, configFile, threads, store>>

\* sendEmail: sender.Send, its one smtp.SendMail and its outcome
smtpSend(e) ==
    /\ execs[e].stage = "smtp"
    /\ \E outcome \in {"ok", "error"} :
         /\ execs' = [execs EXCEPT ![e].smtp = outcome, ![e].stage = "done",
                        ![e].mailed = Append(@, JobOf(e)),
                        ![e].err = IF outcome = "ok" THEN "" ELSE "send"]
         /\ Returned(e, IF outcome = "ok" THEN "" ELSE "send")
    /\ UNCHANGED <<boot, pending, wire, config, configFile, threads, store>>

\* handleTestEmail: the job it builds from the request
TestJob == Job("", CronEmpty, "", <<"a@example.com">>, "test")

\* handleTestEmail: a POST whose body decodes; the handler calls sendEmail
\* with the test job and waits for it
handleTestEmail(p) ==
    /\ Accepting(p)
    /\ execs' = Append(execs, [Exec(TestJob, "test") EXCEPT
                                 !.caller = p, !.stage = "send_config"])
    /\ pc' = [pc EXCEPT ![p] = "test_email"]
    /\ req' = [req EXCEPT ![p] = Request("test_email", "", TestJob)]
    /\ resp' = [resp EXCEPT ![p] = NoResp]
    /\ UNCHANGED <<snap, store, boot, pending, wire, config, configFile, threads>>

Next ==
    \/ loadJobs
    \/ scheduleLoaded
    \/ \E p \in Procs :
         \/ listJobs(p)
         \/ \E id \in JobIds : getJob(p, id)
         \/ \E body \in Bodies, id \in ExplicitIds \cup {""}, t \in Stamps :
              createJob(p, WithID(body, id), t)
         \/ \E id \in JobIds, body \in Bodies : updateJob(p, id, body)
         \/ undecodable(p, "create_undecodable", "")
         \/ \E id \in JobIds : undecodable(p, "update_undecodable", id)
         \/ \E id \in JobIds : deleteJob(p, id)
         \/ \E id \in JobIds : executeJobHandler(p, id)
         \/ updatePut(p)
         \/ scheduleStep(p)
         \/ deleteUnschedule(p)
         \/ deleteRemove(p)
         \/ saveJobsCopy(p)
         \/ saveJobsWrite(p)

\* The store, the scheduler and the handlers.  An execution writes none of
\* jobs, cronIDs, the engine's entries and the jobs file, so the steps of
\* the pipeline are left to SpecExec.
Spec == Init /\ [][Next]_vars

\* The execution pipeline: startup, scheduled firings, on-demand triggers
\* and the stages of every execution, with or without an SMTP host.
InitExec ==
    /\ boot = "load"
    /\ pending = {}
    /\ jobs = EmptyMap
    /\ cronIDs = EmptyMap
    /\ entries = EmptyMap
    /\ nextID = 0
    /\ jobsFile \in StartFiles
    /\ writeFailed = FALSE
    /\ pc = [p \in Procs |-> "new"]
    /\ req = [p \in Procs |-> NoReq]
    /\ resp = [p \in Procs |-> NoResp]
    /\ snap = [p \in Procs |-> EmptyMap]
    /\ config \in {DefaultConfig, NoHostConfig}
    /\ configFile = ConfigFileMissing
    /\ threads = [t \in Threads |-> NotStarted]
    /\ execs = <<>>
    /\ Idle

\* the entries that may fire and the ids a trigger may name while the run
\* has executions left
Firing == IF Len(execs) < MaxExecs THEN DOMAIN entries ELSE {}
Triggers == IF Len(execs) < MaxExecs THEN JobIds ELSE {}
Testers == IF Len(execs) < MaxExecs THEN Procs ELSE {}

NextExec ==
    \/ loadJobs
    \/ scheduleLoaded
    \/ \E id \in Firing : cronFire(id)
    \/ \E p \in Procs, id \in Triggers : executeJobHandler(p, id)
    \/ \E p \in Testers : handleTestEmail(p)
    \/ \E e \in ExecIds : renderConfig(e)
    \/ \E e \in ExecIds : renderHTTP(e)
    \/ \E e \in ExecIds : sendConfig(e)
    \/ \E e \in ExecIds : smtpSend(e)

SpecExec == InitExec /\ [][NextExec]_vars

\* Executions in flight while the store changes: startup with one stored
\* job (or none), firings and triggers, updateJob and deleteJob of the id,
\* and the stages of every execution.
InitSnap ==
    /\ boot = "load"
    /\ pending = {}
    /\ jobs = EmptyMap
    /\ cronIDs = EmptyMap
    /\ entries = EmptyMap
    /\ nextID = 0
    /\ jobsFile \in {FileMissing, FileOf(<<WithID(BodyA, "j1")>>)}
    /\ writeFailed = FALSE
    /\ pc = [p \in Procs |-> "new"]
    /\ req = [p \in Procs |-> NoReq]
    /\ resp = [p \in Procs |-> NoResp]
    /\ snap = [p \in Procs |-> EmptyMap]
    /\ config = DefaultConfig
    /\ configFile = ConfigFileMissing
    /\ threads = [t \in Threads |-> NotStarted]
    /\ execs = <<>>
    /\ Idle

NextSnap ==
    \/ loadJobs
    \/ scheduleLoaded
    \/ \E id \in Firing : cronFire(id)
    \/ \E p \in Procs, id \in Triggers \cap ExplicitIds : executeJobHandler(p, id)
    \/ \E p \in Procs, id \in ExplicitIds : updateJob(p, id, BodyB)
    \/ \E p \in Procs, id \in ExplicitIds : deleteJob(p, id)
    \/ \E p \in Procs :
         \/ updatePut(p)
         \/ scheduleStep(p)
         \/ deleteUnschedule(p)
         \/ deleteRemove(p)
         \/ saveJobsCopy(p)
         \/ saveJobsWrite(p)
    \/ \E e \in ExecIds : renderConfig(e)
    \/ \E e \in ExecIds : renderHTTP(e)
    \/ \E e \in ExecIds : sendConfig(e)
    \/ \E e \in ExecIds : smtpSend(e)

SpecSnap == InitSnap /\ [][NextSnap]_vars

\* Executions in flight while the config changes: startup with one stored
\* job, firings and triggers of it, the stages of every execution, and
\* updateConfig with its save.  updateConfig is defined with /config below.
OtherConfig == Config("http://grafana:3000", <<"k", "e", "y">>, "mail.example.com", <<"p", "w">>)
LiveConfigs == {DefaultConfig, OtherConfig, NoHostConfig}

(* --------------------------- lock-level view --------------------------- *)
\* What a goroutine does to app.mu, app.configMu and the data they guard, as
\* the sequence of its steps: Lock/RLock and Unlock/RUnlock of a mutex ("w"
\* or "r"), a read or a write of app.jobs, app.cronIDs or app.config, a
\* network call, a file operation, a call into the cron engine or the mux.
Lock(l, m) == [k |-> "lock", l |-> l, m |-> m]
Unlock(l, m) == [k |-> "unlock", l |-> l, m |-> m]
Access(v, m) == [k |-> "access", l |-> v, m |-> m]
Net(what) == [k |-> "net", l |-> what, m |-> ""]
File(which) == [k |-> "file", l |-> which, m |-> ""]
Call(what) == [k |-> "call", l |-> what, m |-> ""]

\* the mutex that is meant to guard a datum
GuardOf(v) == IF v = "config" THEN "configMu" ELSE "mu"

loadConfigSteps ==
    << Lock("configMu", "w"), File("config"), Access("config", "w"),
       Unlock("configMu", "w") >>
saveConfigSteps ==
    << Lock("configMu", "r"), Access("config", "r"), Unlock("configMu", "r"),
       File("config") >>
loadJobsSteps ==
    << Lock("mu", "w"), File("jobs"), Access("jobs", "w"), Unlock("mu", "w") >>
saveJobsSteps ==
    << Lock("mu", "r"), Access("jobs", "r"), Unlock("mu", "r"), File("jobs") >>
scheduleJobSteps ==
    << Lock("mu", "w"), Access("cronIDs", "r"), Call("Remove"), Access("cronIDs", "w"),
       Call("AddFunc"), Access("cronIDs", "w"), Unlock("mu", "w") >>
unscheduleJobSteps ==
    << Lock("mu", "w"), Access("cronIDs", "r"), Call("Remove"), Access("cronIDs", "w"),
       Unlock("mu", "w") >>
\* a renderReport whose RUnlock is deferred to its return
renderReportSteps_DeferredUnlock ==
    << Lock("configMu", "r"), Access("config", "r"), Net("render"),
       Unlock("configMu", "r") >>
renderReportSteps ==
    << Lock("configMu", "r"), Access("config", "r"), Unlock("configMu", "r"),
       Net("render") >>
sendEmailSteps ==
    << Lock("configMu", "r"), Access("config", "r"), Unlock("configMu", "r"),
       Net("smtp") >>
executeJobSteps == renderReportSteps \o sendEmailSteps
\* a listJobs that ranges over the map without the lock
listJobsSteps_NoLock == << Access("jobs", "r") >>
listJobsSteps == << Lock("mu", "r"), Access("jobs", "r"), Unlock("mu", "r") >>
getJobSteps == << Lock("mu", "r"), Access("jobs", "r"), Unlock("mu", "r") >>
\* a createJob that keeps app.mu until it returns and calls scheduleJob with
\* the lock held
createJobSteps_LockHeld ==
    << Lock("mu", "w"), Access("jobs", "w") >>
       \o scheduleJobSteps \o << Unlock("mu", "w") >> \o saveJobsSteps
createJobSteps ==
    << Lock("mu", "w"), Access("jobs", "w"), Unlock("mu", "w") >>
       \o scheduleJobSteps \o saveJobsSteps
updateJobSteps ==
    << Lock("mu", "r"), Access("jobs", "r"), Unlock("mu", "r"),
       Lock("mu", "w"), Access("jobs", "w"), Unlock("mu", "w") >>
       \o scheduleJobSteps \o saveJobsSteps
deleteJobSteps ==
    << Lock("mu", "r"), Access("jobs", "r"), Unlock("mu", "r") >>
       \o unscheduleJobSteps
       \o << Lock("mu", "w"), Access("jobs", "w"), Unlock("mu", "w") >>
       \o saveJobsSteps
executeJobHandlerSteps ==
    << Lock("mu", "r"), Access("jobs", "r"), Unlock("mu", "r"), Call("go") >>
handleTestEmailSteps == sendEmailSteps
getConfigSteps ==
    << Lock("configMu", "r"), Access("config", "r"), Unlock("configMu", "r") >>
updateConfigSteps ==
    << Lock("configMu", "w"), Access("config", "r"), Access("config", "w"),
       Unlock("configMu", "w") >> \o saveConfigSteps
handleDashboardsSteps ==
    << Lock("configMu", "r"), Access("config", "r"), Unlock("configMu", "r"),
       Net("dashboards") >>
\* NewApp, with two jobs loaded: the defaults are filled in and the loaded
\* jobs are ranged over without any lock
NewAppSteps ==
    loadConfigSteps
       \o << Access("config", "r"), Access("config", "w") >>
       \o loadJobsSteps
       \o << Call("Start"), Access("jobs", "r") >> \o scheduleJobSteps
       \o << Access("jobs", "r") >> \o scheduleJobSteps
       \o << Access("jobs", "r"), Call("Serve") >>

\* the routes of the mux
HandlerOps ==
    { "listJobs", "getJob", "createJob", "updateJob", "deleteJob",
      "executeJobHandler", "handleTestEmail", "getConfig", "updateConfig",
      "handleDashboards" }

Code(op) ==
    CASE op = "NewApp" -> NewAppSteps
      [] op = "executeJob" -> executeJobSteps
      [] op = "listJobs" -> listJobsSteps
      [] op = "getJob" -> getJobSteps
      [] op = "createJob" -> createJobSteps
      [] op = "updateJob" -> updateJobSteps
      [] op = "deleteJob" -> deleteJobSteps
      [] op = "executeJobHandler" -> executeJobHandlerSteps
      [] op = "handleTestEmail" -> handleTestEmailSteps
      [] op = "getConfig" -> getConfigSteps
      [] op = "updateConfig" -> updateConfigSteps
      [] op = "handleDashboards" -> handleDashboardsSteps
      [] OTHER -> << >>

\* the goroutine has steps left, and the next of them
Running(t) == threads[t].at <= Len(Code(threads[t].op))
Instr(t) == Code(threads[t].op)[threads[t].at]
At(t, kind) == Running(t) /\ Instr(t).k = kind

\* the steps of NewApp done so far
Done(step) ==
    \E i \in 1..Len(NewAppSteps) :
      NewAppSteps[i] = step /\ threads[Constructor].op = "NewApp"
                            /\ threads[Constructor].at > i

\* the cron engine runs and holds an entry: it may fire
CronLive == Done(Call("Start")) /\ Done(Call("AddFunc"))
\* the mux is set up: requests are served
Serving == Done(Call("Serve"))

Advance(t, held) ==
    /\ threads' = [threads EXCEPT ![t].at = @ + 1, ![t].held = held]
    /\ UNCHANGED <<boot, pending, wire, config, configFile, execs, store, handlers>>

\* the plugin SDK calls NewApp
construct ==
    /\ threads[Constructor].op = "none"
    /\ threads' = [threads EXCEPT ![Constructor].op = "NewApp"]
    /\ UNCHANGED <<boot, pending, wire, config, configFile, execs, store, handlers>>

\* net/http runs a handler on a goroutine of its own
serve(t, op) ==
    /\ Serving
    /\ threads[t].op = "none"
    /\ threads' = [threads EXCEPT ![t].op = op]
    /\ UNCHANGED <<boot, pending, wire, config, configFile, execs, store, handlers>>

\* the cron engine, or the go statement of executeJobHandler, runs executeJob
\* on a goroutine of its own
fire(t) ==
    /\ CronLive
    /\ threads[t].op = "none"
    /\ threads' = [threads EXCEPT ![t].op = "executeJob"]
    /\ UNCHANGED <<boot, pending, wire, config, configFile, execs, store, handlers>>

\* sync.RWMutex: Lock waits for every holder, RLock for a writer
acquire(t) ==
    /\ At(t, "lock")
    /\ \A u \in Threads :
         /\ <<Instr(t).l, "w">> \notin threads[u].held
         /\ Instr(t).m = "w" => <<Instr(t).l, "r">> \notin threads[u].held
    /\ Advance(t, threads[t].held \cup {<<Instr(t).l, Instr(t).m>>})

release(t) ==
    /\ At(t, "unlock")
    /\ Advance(t, threads[t].held \ {<<Instr(t).l, Instr(t).m>>})

\* a read or a write of app.jobs, app.cronIDs or app.config
access(t) ==
    /\ At(t, "access")
    /\ Advance(t, threads[t].held)

\* client.Do and the read of its response, or smtp.SendMail, returns
network(t) ==
    /\ At(t, "net")
    /\ Advance(t, threads[t].held)

\* os.Stat, os.ReadFile, os.WriteFile
fileOp(t) ==
    /\ At(t, "file")
    /\ Advance(t, threads[t].held)

\* scheduler.Start, AddFunc, Remove, the go statement, the set-up of the mux
call(t) ==
    /\ At(t, "call")
    /\ Advance(t, threads[t].held)

\* the handler or the execution returns and its goroutine ends
return(t) ==
    /\ threads[t].op # "none"
    /\ ~Running(t)
    /\ threads' = [threads EXCEPT ![t] = NotStarted]
    /\ UNCHANGED <<boot, pending, wire, config, configFile, execs, store, handlers>>

InitLocks ==
    /\ boot = "load"
    /\ pending = {}
    /\ jobs = EmptyMap
    /\ cronIDs = EmptyMap
    /\ entries = EmptyMap
    /\ nextID = 0
    /\ jobsFile = FileMissing
    /\ writeFailed = FALSE
    /\ pc = [p \in Procs |-> "new"]
    /\ req = [p \in Procs |-> NoReq]
    /\ resp = [p \in Procs |-> NoResp]
    /\ snap = [p \in Procs |-> EmptyMap]
    /\ config = DefaultConfig
    /\ configFile = ConfigFileMissing
    /\ threads = [t \in Threads |-> NotStarted]
    /\ execs = <<>>
    /\ Idle

NextLocks ==
    \/ construct
    \/ \E t \in Workers, op \in HandlerOps : serve(t, op)
    \/ \E t \in Workers : fire(t)
    \/ \E t \in Threads : acquire(t)
    \/ \E t \in Threads : release(t)
    \/ \E t \in Threads : access(t)
    \/ \E t \in Threads : network(t)
    \/ \E t \in Threads : fileOp(t)
    \/ \E t \in Threads : call(t)
    \/ \E t \in Workers : return(t)

SpecLocks == InitLocks /\ [][NextLocks]_vars

\* The same with the scheduling the runtime gives: a goroutine that can take
\* a step takes it, a network call, a file operation and a call into the cron
\* engine return, and a goroutine waiting in Lock or RLock gets the mutex if
\* it is free again and again (sync.RWMutex lets no waiter starve).
SpecLocksFair ==
    /\ SpecLocks
    /\ \A t \in Threads :
         /\ WF_vars(release(t) \/ access(t) \/ network(t) \/ fileOp(t) \/ call(t))
         /\ SF_vars(acquire(t))
    /\ \A t \in Workers : WF_vars(return(t))

(* ------------------------------- /config ------------------------------- *)
\* strings.Repeat("*", n)
Stars(n) == [i \in 1..n |-> "*"]

\* maskString
maskString(s) ==
    IF s = <<>> THEN <<>>
    ELSE IF Len(s) <= 4 THEN Stars(4)
    ELSE SubSeq(s, 1, 2) \o Stars(Len(s) - 4) \o SubSeq(s, Len(s) - 1, Len(s))

\* an updateConfig that takes only "****" for a masked value
masked_OnlyFourStars(s) == s = Stars(4)
\* updateConfig: strings.Contains(s, "*")
masked(s) == \E i \in 1..Len(s) : s[i] = "*"

\* getConfig: the response, the secrets masked
ConfigResponse(c) ==
    [c EXCEPT !.GrafanaAPIKey = maskString(@), !.SMTPPassword = maskString(@)]

\* getConfig
getConfig(p) ==
    /\ Accepting(p)
    /\ Answer(p, Request("getConfig", "", BodyA), Reply(200, {ConfigResponse(config)}))
    /\ UNCHANGED env

\* an updateConfig that tests the API key where it means the password
Merged_KeyTestedTwice(newConfig) ==
    [newConfig EXCEPT
       !.GrafanaAPIKey = IF masked(@) THEN config.GrafanaAPIKey ELSE @,
       !.SMTPPassword = IF masked(newConfig.GrafanaAPIKey)
                          THEN config.SMTPPassword ELSE @]

\* updateConfig: the config it stores for the one it was posted
Merged(newConfig) ==
    [newConfig EXCEPT
       !.GrafanaAPIKey = IF masked(@) THEN config.GrafanaAPIKey ELSE @,
       !.SMTPPassword = IF masked(@) THEN config.SMTPPassword ELSE @]

\* updateConfig up to the end of its critical section (app.config = newConfig)
updateConfig(p, newConfig) ==
    /\ Accepting(p)
    /\ config' = Merged(newConfig)
    /\ pc' = [pc EXCEPT ![p] = "config_copy"]
    /\ req' = [req EXCEPT ![p] = Request("updateConfig", "", newConfig)]
    /\ resp' = [resp EXCEPT ![p] = NoResp]
    /\ UNCHANGED <<snap, store, boot, pending, wire, configFile, threads, execs>>

\* saveConfig: the copy of app.config taken under the read lock
saveConfigCopy(p) ==
    /\ pc[p] = "config_copy"
    /\ snap' = [snap EXCEPT ![p] = config]
    /\ pc' = [pc EXCEPT ![p] = "config_write"]
    /\ UNCHANGED <<env, store, req, resp>>

\* saveConfig: os.WriteFile with the copy, after the lock is released; then
\* the handler's response
saveConfigWrite(p) ==
    /\ pc[p] = "config_write"
    /\ \/ /\ configFile' = ConfigFileOf(snap[p])
          /\ resp' = [resp EXCEPT ![p] = Reply(200, {})]
       \/ /\ configFile' = configFile
          /\ resp' = [resp EXCEPT ![p] = Reply(500, {})]
    /\ pc' = [pc EXCEPT ![p] = "done"]
    /\ snap' = [snap EXCEPT ![p] = EmptyMap]
    /\ UNCHANGED <<boot, pending, wire, config, threads, execs, store, req>>

\* the secrets NewApp may leave in app.config: any API key, and a password
\* of any length
Passwords == {s \in Secrets : \A i \in 1..Len(s) : s[i] = "a"}
StartConfigs ==
    {Config("http://localhost:3000", key, "smtp.example.com", pass) :
       key \in Secrets, pass \in Passwords}

\* a secret a client sets
NewSecret == <<"b", "a", "b", "a", "b">>
\* a secret with an asterisk in it
StarSecret == <<"a", "*">>
\* what a client posts for a secret: the masked value GET /config shows for
\* it, a new secret or nothing; for the API key also a secret with an asterisk
Posted(secret) == {maskString(secret), NewSecret, <<>>}
PostedConfigs ==
    {Config(config.GrafanaURL, key, config.SMTPHost, pass) :
       key \in Posted(config.GrafanaAPIKey) \cup {StarSecret},
       pass \in Posted(config.SMTPPassword)}

InitConfig ==
    /\ boot = "running"
    /\ pending = {}
    /\ jobs = EmptyMap
    /\ cronIDs = EmptyMap
    /\ entries = EmptyMap
    /\ nextID = 0
    /\ jobsFile = FileOf(<<>>)
    /\ writeFailed = FALSE
    /\ pc = [p \in Procs |-> "new"]
    /\ req = [p \in Procs |-> NoReq]
    /\ resp = [p \in Procs |-> NoResp]
    /\ snap = [p \in Procs |-> EmptyMap]
    /\ config \in StartConfigs
    /\ configFile = ConfigFileMissing
    /\ threads = [t \in Threads |-> NotStarted]
    /\ execs = <<>>
    /\ Idle

NextConfig ==
    \E p \in Procs :
      \/ getConfig(p)
      \/ \E newConfig \in PostedConfigs : updateConfig(p, newConfig)
      \/ undecodable(p, "config_undecodable", "")
      \/ saveConfigCopy(p)
      \/ saveConfigWrite(p)

SpecConfig == InitConfig /\ [][NextConfig]_vars

NextLive ==
    \/ loadJobs
    \/ scheduleLoaded
    \/ \E id \in Firing : cronFire(id)
    \/ \E p \in Procs, id \in Triggers \cap ExplicitIds : executeJobHandler(p, id)
    \/ \E p \in Procs, newConfig \in LiveConfigs : updateConfig(p, newConfig)
    \/ \E p \in Procs : saveConfigCopy(p)
    \/ \E p \in Procs : saveConfigWrite(p)
    \/ \E e \in ExecIds : renderConfig(e)
    \/ \E e \in ExecIds : renderHTTP(e)
    \/ \E e \in ExecIds : sendConfig(e)
    \/ \E e \in ExecIds : smtpSend(e)

SpecLive == InitSnap /\ [][NextLive]_vars

\* updateJob with bodies that carry an id of their own: startup with two
\* stored jobs, PUT /jobs/<id> for either of them with a body whose id is
\* the other one's, the path's, or one that is not stored, and the steps of
\* the request.
ForeignBody(id) == Job(id, CronHourly, "abc123", <<"b@example.com">>, "from " \o id)
UpdateBodies ==
    {ForeignBody(id) : id \in {"j1", GenID(1), GenID(2)}}
       \cup {WithID(BodyBadCron, GenID(1))}
UpdatePaths == {"j1", GenID(1)}

InitUpdate ==
    /\ boot = "load"
    /\ pending = {}
    /\ jobs = EmptyMap
    /\ cronIDs = EmptyMap
    /\ entries = EmptyMap
    /\ nextID = 0
    /\ jobsFile = FileOf(<<WithID(BodyA, "j1"), WithID(BodyA, GenID(1))>>)
    /\ writeFailed = FALSE
    /\ pc = [p \in Procs |-> "new"]
    /\ req = [p \in Procs |-> NoReq]
    /\ resp = [p \in Procs |-> NoResp]
    /\ snap = [p \in Procs |-> EmptyMap]
    /\ config = DefaultConfig
    /\ configFile = ConfigFileMissing
    /\ threads = [t \in Threads |-> NotStarted]
    /\ execs = <<>>
    /\ Idle

NextUpdate ==
    \/ loadJobs
    \/ scheduleLoaded
    \/ \E p \in Procs, id \in UpdatePaths, body \in UpdateBodies : updateJob(p, id, body)
    \/ \E p \in Procs : updatePut(p)
    \/ \E p \in Procs : scheduleStep(p)
    \/ \E p \in Procs : saveJobsCopy(p)
    \/ \E p \in Procs : saveJobsWrite(p)

SpecUpdate == InitUpdate /\ [][NextUpdate]_vars

\* Mutations whose file write may fail: startup with one stored job, a
\* createJob, an updateJob and a deleteJob, an updateConfig that sets a new
\* password, and their saves.
InitSave ==
    /\ boot = "load"
    /\ pending = {}
    /\ jobs = EmptyMap
    /\ cronIDs = EmptyMap
    /\ entries = EmptyMap
    /\ nextID = 0
    /\ jobsFile \in {FileMissing, FileOf(<<WithID(BodyA, "j1")>>)}
    /\ writeFailed = FALSE
    /\ pc = [p \in Procs |-> "new"]
    /\ req = [p \in Procs |-> NoReq]
    /\ resp = [p \in Procs |-> NoResp]
    /\ snap = [p \in Procs |-> EmptyMap]
    /\ config = DefaultConfig
    /\ configFile = ConfigFileMissing
    /\ threads = [t \in Threads |-> NotStarted]
    /\ execs = <<>>
    /\ Idle

NextSave ==
    \/ loadJobs
    \/ scheduleLoaded
    \/ \E p \in Procs :
         \/ \E t \in Stamps : createJob(p, BodyB, t)
         \/ \E id \in ExplicitIds : updateJob(p, id, BodyB)
         \/ \E id \in ExplicitIds : deleteJob(p, id)
         \/ updateConfig(p, [config EXCEPT !.SMTPPassword = NewSecret])
         \/ updatePut(p)
         \/ scheduleStep(p)
         \/ deleteUnschedule(p)
         \/ deleteRemove(p)
         \/ saveJobsCopy(p)
         \/ saveJobsWrite(p)
         \/ saveConfigCopy(p)
         \/ saveConfigWrite(p)

SpecSave == InitSave /\ [][NextSave]_vars

(* ------------------------- the jobs file as JSON ------------------------ *)
\* A nil pointer, slice or map is <<>>; a value that is present is <<v>>.
MaxVars == 2
VarNames == <<"region", "env", "host", "team">>
VarMaps ==
    { [n \in {VarNames[i] : i \in 1..k} |-> v] : k \in 0..MaxVars, v \in {"eu"} }
    \cup {[n \in {VarNames[1]} |-> "us"]}

\* type Job, every field of it
FullJob(id, panelID, recipients, variables) ==
    [ID |-> id, Cron |-> CronDaily9, DashboardUID |-> "abc123", Slug |-> "home",
     PanelID |-> panelID, From |-> "now-24h", To |-> "now", Width |-> 1920,
     Height |-> 1080, Scale |-> 1, Format |-> "png", Recipients |-> recipients,
     Subject |-> "Report", Body |-> "See attached.", Variables |-> variables]
FullJobs(id) ==
    { FullJob(id, panelID, recipients, variables) :
        panelID \in {<<>>, <<0>>, <<7>>},
        recipients \in {<<>>, << <<>> >>, << <<"a@x", "b@x">> >>, << <<"b@x", "a@x">> >>},
        variables \in {<<>>} \cup {<<m>> : m \in VarMaps} }

\* JSON values
Null == [t |-> "null", v |-> 0]
Str(x) == [t |-> "str", v |-> x]
Num(x) == [t |-> "num", v |-> x]
Arr(x) == [t |-> "arr", v |-> x]
Obj(x) == [t |-> "obj", v |-> x]

\* json.MarshalIndent of a Job, with omitempty taken for "is absent" only
Marshal_OmitsNilOnly(job) ==
    LET keys == {"id", "cron", "dashboardUid", "slug", "from", "to", "width",
                 "height", "scale", "format", "recipients", "subject", "body"}
                \cup (IF job.PanelID # <<>> THEN {"panelId"} ELSE {})
                \cup (IF job.Variables # <<>> THEN {"variables"} ELSE {})
    IN [k \in keys |->
         CASE k = "id" -> Str(job.ID)
           [] k = "cron" -> Str(job.Cron)
           [] k = "dashboardUid" -> Str(job.DashboardUID)
           [] k = "slug" -> Str(job.Slug)
           [] k = "panelId" -> Num(job.PanelID[1])
           [] k = "from" -> Str(job.From)
           [] k = "to" -> Str(job.To)
           [] k = "width" -> Num(job.Width)
           [] k = "height" -> Num(job.Height)
           [] k = "scale" -> Num(job.Scale)
           [] k = "format" -> Str(job.Format)
           [] k = "recipients" ->
                IF job.Recipients = <<>> THEN Null
                ELSE Arr([i \in 1..Len(job.Recipients[1]) |-> Str(job.Recipients[1][i])])
           [] k = "subject" -> Str(job.Subject)
           [] k = "body" -> Str(job.Body)
           [] k = "variables" ->
                Obj([n \in DOMAIN job.Variables[1] |-> Str(job.Variables[1][n])])]

\* json.MarshalIndent of a Job: the struct tags of the type; omitempty leaves
\* out a nil pointer and a map of length 0
Marshal(job) ==
    LET keys == {"id", "cron", "dashboardUid", "slug", "from", "to", "width",
                 "height", "scale", "format", "recipients", "subject", "body"}
                \cup (IF job.PanelID # <<>> THEN {"panelId"} ELSE {})
                \cup (IF job.Variables # <<>> /\ DOMAIN job.Variables[1] # {}
                      THEN {"variables"} ELSE {})
    IN [k \in keys |->
         CASE k = "id" -> Str(job.ID)
           [] k = "cron" -> Str(job.Cron)
           [] k = "dashboardUid" -> Str(job.DashboardUID)
           [] k = "slug" -> Str(job.Slug)
           [] k = "panelId" -> Num(job.PanelID[1])
           [] k = "from" -> Str(job.From)
           [] k = "to" -> Str(job.To)
           [] k = "width" -> Num(job.Width)
           [] k = "height" -> Num(job.Height)
           [] k = "scale" -> Num(job.Scale)
           [] k = "format" -> Str(job.Format)
           [] k = "recipients" ->
                IF job.Recipients = <<>> THEN Null
                ELSE Arr([i \in 1..Len(job.Recipients[1]) |-> Str(job.Recipients[1][i])])
           [] k = "subject" -> Str(job.Subject)
           [] k = "body" -> Str(job.Body)
           [] k = "variables" ->
                Obj([n \in DOMAIN job.Variables[1] |-> Str(job.Variables[1][n])])]

\* json.Unmarshal into a Job: does the value of every key have the type of
\* its field (null is accepted everywhere)
Decodes(obj) ==
    \A k \in DOMAIN obj :
      \/ obj[k].t = "null"
      \/ k \in {"id", "cron", "dashboardUid", "slug", "from", "to", "format",
                "subject", "body"} /\ obj[k].t = "str"
      \/ k \in {"panelId", "width", "height", "scale"} /\ obj[k].t = "num"
      \/ k = "recipients" /\ obj[k].t = "arr"
                          /\ \A i \in DOMAIN obj[k].v : obj[k].v[i].t = "str"
      \/ k = "variables" /\ obj[k].t = "obj"
                         /\ \A n \in DOMAIN obj[k].v : obj[k].v[n].t = "str"

\* json.Unmarshal into a zero Job: a key that is absent or null leaves the
\* field at its zero value
Unmarshal(obj) ==
    LET has(k) == k \in DOMAIN obj /\ obj[k].t # "null"
        str(k) == IF has(k) THEN obj[k].v ELSE ""
        num(k) == IF has(k) THEN obj[k].v ELSE 0
    IN [ID |-> str("id"),
        Cron |-> IF has("cron") THEN obj["cron"].v ELSE CronEmpty,
        DashboardUID |-> str("dashboardUid"), Slug |-> str("slug"),
        PanelID |-> IF has("panelId") THEN <<obj["panelId"].v>> ELSE <<>>,
        From |-> str("from"), To |-> str("to"), Width |-> num("width"),
        Height |-> num("height"), Scale |-> num("scale"), Format |-> str("format"),
        Recipients |->
          IF has("recipients")
          THEN << [i \in DOMAIN obj["recipients"].v |-> obj["recipients"].v[i].v] >>
          ELSE <<>>,
        Subject |-> str("subject"), Body |-> str("body"),
        Variables |->
          IF has("variables")
          THEN << [n \in DOMAIN obj["variables"].v |-> obj["variables"].v[n].v] >>
          ELSE <<>>]

\* the stores over the ids "j1" and "j2": every job under its own id
FullStores ==
    UNION { [ids -> UNION {FullJobs(id) : id \in ids}] : ids \in SUBSET {"j1", "j2"} }
Stores == { m \in FullStores : \A id \in DOMAIN m : m[id].ID = id }

\* a jobs file written by hand or by another version: variables given as
\* single strings, as arrays of strings, or both
FileJob == FullJob("j1", <<>>, << <<"a@x">> >>, <<>>)
WithVariables(obj, v) == [k \in DOMAIN obj \cup {"variables"} |->
                            IF k = "variables" THEN Obj(v) ELSE obj[k]]
Single == Str("us-east")
Several == Arr(<<Str("us-east"), Str("us-west")>>)
HandFiles ==
    { FileOf(<<WithVariables(Marshal(FileJob), v)>>) :
        v \in UNION { [ns -> {Single, Several}] : ns \in (SUBSET {"region", "env"}) \ {{}} } }

InitFile ==
    /\ \/ boot = "save" /\ jobs \in Stores /\ jobsFile = FileMissing
       \/ boot = "load" /\ jobs = EmptyMap /\ jobsFile \in HandFiles
    /\ pending = {}
    /\ cronIDs = EmptyMap
    /\ entries = EmptyMap
    /\ nextID = 0
    /\ writeFailed = FALSE
    /\ pc = [p \in Procs |-> "new"]
    /\ req = [p \in Procs |-> NoReq]
    /\ resp = [p \in Procs |-> NoResp]
    /\ snap = [p \in Procs |-> EmptyMap]
    /\ config = DefaultConfig
    /\ configFile = ConfigFileMissing
    /\ threads = [t \in Threads |-> NotStarted]
    /\ execs = <<>>
    /\ Idle

\* saveJobs, every field written: the jobs of the map in some order, marshalled
saveJobsMarshal ==
    /\ boot = "save"
    /\ \E s \in Orders(jobs) :
         jobsFile' = FileOf([i \in 1..Len(s) |-> Marshal(s[i])])
    /\ boot' = "load"
    /\ UNCHANGED <<pending, wire, config, configFile, threads, execs, handlers,
                   jobs, cronIDs, entries, nextID, writeFailed>>

\* a new process: NewApp makes an empty map and loadJobs fills it from the
\* file; json.Unmarshal's error leaves the map empty
loadJobsUnmarshal ==
    /\ boot = "load"
    /\ IF \A i \in 1..Len(jobsFile.recs) : Decodes(jobsFile.recs[i])
         THEN /\ jobs' = LoadInto(EmptyMap,
                           [i \in 1..Len(jobsFile.recs) |-> Unmarshal(jobsFile.recs[i])])
              /\ boot' = "running"
         ELSE /\ jobs' = EmptyMap
              /\ boot' = "failed"
    /\ UNCHANGED <<pending, wire, config, configFile, threads, execs, handlers,
                   cronIDs, entries, nextID, jobsFile, writeFailed>>

NextFile == saveJobsMarshal \/ loadJobsUnmarshal

SpecFile == InitFile /\ [][NextFile]_vars

(* ------------------------------- e-mail -------------------------------- *)
\* A string the code takes apart is the sequence of its pieces; a byte is a
\* number in 0..255; a base64 character is its value in 0..63, "=" is Pad.
MaxPayload == 115
Payloads ==
    { [i \in 1..n |-> (37 * i + 200 * k) % 256] : n \in 0..MaxPayload, k \in 0..1 }

Png == <<"p", "n", "g">>
Pdf == <<"p", "d", "f">>
Html == <<"h", "t", "m", "l">>
HasSuffix(s, suffix) ==
    /\ Len(s) >= Len(suffix)
    /\ SubSeq(s, Len(s) - Len(suffix) + 1, Len(s)) = suffix

\* base64.StdEncoding.EncodeToString
Pad == 64
EncodeToString(b) ==
    LET n == Len(b)
        at(i) == IF i <= n THEN b[i] ELSE 0
        char(k, j) ==
          CASE j = 1 -> at(3 * k - 2) \div 4
            [] j = 2 -> (at(3 * k - 2) % 4) * 16 + at(3 * k - 1) \div 16
            [] j = 3 -> IF 3 * k - 1 <= n
                        THEN (at(3 * k - 1) % 16) * 4 + at(3 * k) \div 64
                        ELSE Pad
            [] j = 4 -> IF 3 * k <= n THEN at(3 * k) % 64 ELSE Pad
    IN [i \in 1..(4 * ((n + 2) \div 3)) |-> char((i + 3) \div 4, ((i - 1) % 4) + 1)]

\* base64.StdEncoding.DecodeString, of a well-formed encoding
DecodeString(e) ==
    LET g == Len(e) \div 4
        pads == Cardinality({i \in 1..Len(e) : e[i] = Pad})
        byte(k, j) ==
          CASE j = 1 -> e[4 * k - 3] * 4 + e[4 * k - 2] \div 16
            [] j = 2 -> (e[4 * k - 2] % 16) * 16 + e[4 * k - 1] \div 4
            [] j = 3 -> (e[4 * k - 1] % 4) * 64 + e[4 * k]
    IN [i \in 1..(3 * g - pads) |-> byte((i + 2) \div 3, ((i - 1) % 3) + 1)]

\* "Write in 76-character lines", the loop that steps by whole lines only
LineLength == 76
Lines_WholeOnly(encoded) ==
    [k \in 1..(Len(encoded) \div LineLength) |->
       SubSeq(encoded, LineLength * (k - 1) + 1, LineLength * k)]

\* "Write in 76-character lines": for i := 0; i < len(encoded); i += 76
Lines(encoded) ==
    [k \in 1..((Len(encoded) + LineLength - 1) \div LineLength) |->
       SubSeq(encoded, LineLength * (k - 1) + 1,
              IF LineLength * k > Len(encoded) THEN Len(encoded) ELSE LineLength * k)]

\* a MIME entity: its Content-Type, Content-Disposition and Content-ID, the
\* content-ids its text refers to, its text, its base64 lines, its parts
Entity(type, disposition, id, refs, text, lines, parts) ==
    [type |-> type, disposition |-> disposition, id |-> id, refs |-> refs,
     text |-> text, lines |-> lines, parts |-> parts]
TextPart(type, refs, text) == Entity(type, <<>>, <<>>, refs, text, <<>>, <<>>)
Multipart(type, parts) == Entity(type, <<>>, <<>>, {}, "", <<>>, parts)

\* the message of Send, with the attachment part written whatever its length
SendMessage_AlwaysAttaches(body, attachment, filename) ==
    Multipart("multipart/mixed",
      << TextPart("text/plain; charset=utf-8", {}, body),
         Entity(IF HasSuffix(filename, <<".">> \o Png) THEN "image/png"
                ELSE IF HasSuffix(filename, <<".">> \o Pdf) THEN "application/pdf"
                ELSE "application/octet-stream",
                <<"attachment; filename=">> \o filename, <<>>, {}, "",
                Lines(EncodeToString(attachment)), <<>>) >>)

\* the message Send hands to smtp.SendMail
SendMessage(body, attachment, filename) ==
    Multipart("multipart/mixed",
      << TextPart("text/plain; charset=utf-8", {}, body) >> \o
      (IF Len(attachment) > 0
       THEN << Entity(IF HasSuffix(filename, <<".">> \o Png) THEN "image/png"
                      ELSE IF HasSuffix(filename, <<".">> \o Pdf) THEN "application/pdf"
                      ELSE "application/octet-stream",
                      <<"attachment; filename=">> \o filename, <<>>, {}, "",
                      Lines(EncodeToString(attachment)), <<>>) >>
       ELSE <<>>))

\* the message SendHTML hands to smtp.SendMail
SendHTMLMessage(body, imageData, imageFormat) ==
    Multipart("multipart/alternative",
      << TextPart("text/plain; charset=utf-8", {}, <<body, "htmlEmailFallbackText">>),
         Multipart("multipart/related",
           << TextPart("text/html; charset=utf-8", {<<"cid:", "report-image">>}, body) >> \o
           (IF Len(imageData) > 0
            THEN << Entity(IF imageFormat = Pdf THEN "application/pdf" ELSE "image/png",
                           <<"inline">>, <<"<", "report-image", ">">>, {}, "",
                           Lines(EncodeToString(imageData)), <<>>) >>
            ELSE <<>>)) >>)

\* the calls under study
Filenames ==
    { <<"report-2006-01-02-150405", ".">> \o ext : ext \in {Png, Pdf, Html, <<"t", "e", "s", "t">>} }
    \cup {Png, <<"report", ".", "p", "n", "g", ".", "b", "a", "k">>}
MailCalls ==
    { [fn |-> "Send", body |-> "See attached.", data |-> d, name |-> f] :
        d \in Payloads, f \in Filenames }
    \cup { [fn |-> "SendHTML", body |-> "See attached.", data |-> d, name |-> f] :
        d \in Payloads, f \in {Png, Pdf, Html} }
    \cup { [fn |-> "sendEmail", body |-> "See attached.", data |-> d, name |-> f] :
        d \in {x \in Payloads : Len(x) \in {0, 1, 58}}, f \in {Png, Pdf, Html} }

InitMail ==
    /\ boot = "running"
    /\ pending = {}
    /\ jobs = EmptyMap
    /\ cronIDs = EmptyMap
    /\ entries = EmptyMap
    /\ nextID = 0
    /\ jobsFile = FileOf(<<>>)
    /\ writeFailed = FALSE
    /\ pc = [p \in Procs |-> "new"]
    /\ req = [p \in Procs |-> NoReq]
    /\ resp = [p \in Procs |-> NoResp]
    /\ snap = [p \in Procs |-> EmptyMap]
    /\ config = DefaultConfig
    /\ configFile = ConfigFileMissing
    /\ threads = [t \in Threads |-> NotStarted]
    /\ execs = <<>>
    /\ args \in MailCalls
    /\ sent = <<>>
    /\ fetched = <<>>

Hands(message) ==
    /\ sent = <<>>
    /\ sent' = <<message>>
    /\ UNCHANGED <<boot, pending, config, configFile, threads, execs, store,
                   handlers, args, fetched>>

\* EmailSender.Send
Send ==
    /\ args.fn = "Send"
    /\ Hands(SendMessage(args.body, args.data, args.name))

\* EmailSender.SendHTML
SendHTML ==
    /\ args.fn = "SendHTML"
    /\ Hands(SendHTMLMessage(args.body, args.data, args.name))

\* sendEmail, of a job whose Format is args.name and whose rendering is
\* args.data: the file name from the time and the format, then Send
sendEmail ==
    /\ args.fn = "sendEmail"
    /\ Hands(SendMessage(args.body, args.data,
                         <<"report-2006-01-02-150405", ".">> \o args.name))

NextMail == Send \/ SendHTML \/ sendEmail

SpecMail == InitMail /\ [][NextMail]_vars

(* -------------------------------- URLs --------------------------------- *)
\* A URL is the sequence of the pieces fmt.Sprintf puts together; %d of a
\* number is ToString of it.
VariablesOf(job) == IF job.Variables = <<>> THEN EmptyMap ELSE job.Variables[1]

\* the orders in which ranging over a map may visit its keys
KeyOrders(m) ==
    { s \in [1..Cardinality(DOMAIN m) -> DOMAIN m] :
        \A k \in DOMAIN m : \E i \in 1..Cardinality(DOMAIN m) : s[i] = k }

RECURSIVE VarParams(_, _)
VarParams(m, order) ==
    IF order = <<>> THEN <<>>
    ELSE <<"&", "var-", Head(order), "=", m[Head(order)]>> \o VarParams(m, Tail(order))

\* renderReport's URL with the kiosk flag in both templates
renderURL_KioskAlways(grafanaURL, job, order) ==
    (IF job.PanelID # <<>>
     THEN <<grafanaURL, "/render/d-solo/", job.DashboardUID, "/", job.Slug,
            "?", "panelId=", ToString(job.PanelID[1]),
            "&", "from=", job.From, "&", "to=", job.To,
            "&", "width=", ToString(job.Width), "&", "height=", ToString(job.Height),
            "&", "scale=", ToString(job.Scale), "&", "kiosk", "&", "tz=UTC">>
     ELSE <<grafanaURL, "/render/d/", job.DashboardUID, "/", job.Slug,
            "?", "from=", job.From, "&", "to=", job.To,
            "&", "width=", ToString(job.Width), "&", "height=", ToString(job.Height),
            "&", "scale=", ToString(job.Scale), "&", "kiosk", "&", "tz=UTC">>)
    \o VarParams(VariablesOf(job), order)

\* renderReport, "Build render URL" and "Add variables to the URL if present"
renderURL(grafanaURL, job, order) ==
    (IF job.PanelID # <<>>
     THEN <<grafanaURL, "/render/d-solo/", job.DashboardUID, "/", job.Slug,
            "?", "panelId=", ToString(job.PanelID[1]),
            "&", "from=", job.From, "&", "to=", job.To,
            "&", "width=", ToString(job.Width), "&", "height=", ToString(job.Height),
            "&", "scale=", ToString(job.Scale), "&", "tz=UTC">>
     ELSE <<grafanaURL, "/render/d/", job.DashboardUID, "/", job.Slug,
            "?", "from=", job.From, "&", "to=", job.To,
            "&", "width=", ToString(job.Width), "&", "height=", ToString(job.Height),
            "&", "scale=", ToString(job.Scale), "&", "kiosk", "&", "tz=UTC">>)
    \o VarParams(VariablesOf(job), order)

\* buildDashboardURL without the panel
buildDashboardURL_NoPanel(base, job, order) ==
    <<base, "/d/", job.DashboardUID, "/", job.Slug, "?">>
    \o <<"from=", job.From, "&", "to=", job.To>>
    \o VarParams(VariablesOf(job), order)

\* buildDashboardURL: the link to the live dashboard
buildDashboardURL(base, job, order) ==
    <<base, "/d/", job.DashboardUID, "/", job.Slug, "?">>
    \o (IF job.PanelID # <<>> THEN <<"viewPanel=", ToString(job.PanelID[1]), "&">> ELSE <<>>)
    \o <<"from=", job.From, "&", "to=", job.To>>
    \o VarParams(VariablesOf(job), order)

URLCalls ==
    { [fn |-> f, job |-> j] :
        f \in {"renderReport", "buildDashboardURL"},
        j \in FullJobs("j1") }

InitURL ==
    /\ boot = "running"
    /\ pending = {}
    /\ jobs = EmptyMap
    /\ cronIDs = EmptyMap
    /\ entries = EmptyMap
    /\ nextID = 0
    /\ jobsFile = FileOf(<<>>)
    /\ writeFailed = FALSE
    /\ pc = [p \in Procs |-> "new"]
    /\ req = [p \in Procs |-> NoReq]
    /\ resp = [p \in Procs |-> NoResp]
    /\ snap = [p \in Procs |-> EmptyMap]
    /\ config = DefaultConfig
    /\ configFile = ConfigFileMissing
    /\ threads = [t \in Threads |-> NotStarted]
    /\ execs = <<>>
    /\ args \in URLCalls
    /\ sent = <<>>
    /\ fetched = <<>>

\* renderReport up to the request: the URL it asks Grafana for
renderReportURL ==
    /\ args.fn = "renderReport"
    /\ Len(fetched) < 2
    /\ \E order \in KeyOrders(VariablesOf(args.job)) :
         fetched' = Append(fetched, renderURL(config.GrafanaURL, args.job, order))
    /\ UNCHANGED <<boot, pending, config, configFile, threads, execs, store,
                   handlers, args, sent>>

\* app.buildDashboardURL(app.config.GrafanaURL, job)
buildURL ==
    /\ args.fn = "buildDashboardURL"
    /\ Len(fetched) < 2
    /\ \E order \in KeyOrders(VariablesOf(args.job)) :
         fetched' = Append(fetched, buildDashboardURL(config.GrafanaURL, args.job, order))
    /\ UNCHANGED <<boot, pending, config, configFile, threads, execs, store,
                   handlers, args, sent>>

NextURL == renderReportURL \/ buildURL

SpecURL == InitURL /\ [][NextURL]_vars

(* ------------------------------- reload -------------------------------- *)
\* what NewApp's loadConfig and loadJobs make of the files
FreshConfig == IF configFile.state = "ok" THEN configFile.config ELSE DefaultConfig
FreshJobs == IF jobsFile.state = "ok" THEN LoadInto(EmptyMap, jobsFile.recs) ELSE EmptyMap

\* the registrations of the jobs of m, made one after the other in the order
\* s of their ids, the engine's counter starting at n
Registrations(m, s, n) ==
    [e \in (n + 1)..(n + Len(s)) |-> m[s[e - n]]]
Schedulable(m) == {id \in DOMAIN m : CronParses(m[id].Cron)}
IdOrders(ids) ==
    { s \in [1..Cardinality(ids) -> ids] : \A id \in ids : \E i \in 1..Cardinality(ids) : s[i] = id }

\* someone edits the files by hand
editFiles ==
    /\ boot = "running"
    /\ jobsFile' \in StartFiles
    /\ configFile' \in {ConfigFileMissing,
                        ConfigFileOf([DefaultConfig EXCEPT !.SMTPPassword = NewSecret])}
    /\ UNCHANGED <<boot, pending, wire, config, threads, execs, jobs, cronIDs,
                   entries, nextID, writeFailed, handlers>>

\* a reload that loads the files on top of what is in memory
reload_OnTop(p) ==
    /\ Accepting(p)
    /\ config' = FreshConfig
    /\ jobs' = IF jobsFile.state = "ok" THEN LoadInto(jobs, jobsFile.recs) ELSE jobs
    /\ \E s \in IdOrders(Schedulable(jobs') \ DOMAIN cronIDs) :
         /\ entries' = [e \in DOMAIN entries \cup ((nextID + 1)..(nextID + Len(s))) |->
                          IF e \in DOMAIN entries THEN entries[e] ELSE jobs'[s[e - nextID]]]
         /\ cronIDs' = [id \in DOMAIN cronIDs \cup Range(s) |->
                          IF id \in DOMAIN cronIDs THEN cronIDs[id]
                          ELSE CHOOSE e \in (nextID + 1)..(nextID + Len(s)) : s[e - nextID] = id]
         /\ nextID' = nextID + Len(s)
    /\ IF jobsFile.state = "missing"
         THEN \/ jobsFile' = FileOf(<<>>) /\ writeFailed' = writeFailed
              \/ jobsFile' = jobsFile /\ writeFailed' = TRUE
         ELSE jobsFile' = jobsFile /\ writeFailed' = writeFailed
    /\ pc' = [pc EXCEPT ![p] = "done"]
    /\ req' = [req EXCEPT ![p] = Request("reload", "", BodyA)]
    /\ resp' = [resp EXCEPT ![p] = Reply(200, {})]
    /\ UNCHANGED <<boot, pending, wire, configFile, threads, execs, snap>>

\* POST /reload: every registration is removed, the config and the jobs are
\* read from their files as NewApp reads them, every job is scheduled
reload(p) ==
    /\ Accepting(p)
    /\ config' = FreshConfig
    /\ jobs' = FreshJobs
    /\ \E s \in IdOrders(Schedulable(FreshJobs)) :
         /\ entries' = Registrations(FreshJobs, s, nextID)
         /\ cronIDs' = [id \in Schedulable(FreshJobs) |->
                          CHOOSE e \in (nextID + 1)..(nextID + Len(s)) : s[e - nextID] = id]
         /\ nextID' = nextID + Len(s)
    /\ IF jobsFile.state = "missing"
         THEN \/ jobsFile' = FileOf(<<>>) /\ writeFailed' = writeFailed
              \/ jobsFile' = jobsFile /\ writeFailed' = TRUE
         ELSE jobsFile' = jobsFile /\ writeFailed' = writeFailed
    /\ pc' = [pc EXCEPT ![p] = "done"]
    /\ req' = [req EXCEPT ![p] = Request("reload", "", BodyA)]
    /\ resp' = [resp EXCEPT ![p] = Reply(200, {})]
    /\ UNCHANGED <<boot, pending, wire, configFile, threads, execs, snap>>

NextReload ==
    \/ loadJobs
    \/ scheduleLoaded
    \/ editFiles
    \/ \E p \in Procs :
         \/ \E t \in Stamps : createJob(p, BodyB, t)
         \/ scheduleStep(p)
         \/ saveJobsCopy(p)
         \/ saveJobsWrite(p)
         \/ reload(p)

SpecReload == Init /\ [][NextReload]_vars

(* ------------------------------- routing ------------------------------- *)
\* An HTTP request under /jobs/: its method and the pieces of r.URL.Path
\* after "/jobs/". In this view args is the sequence of the requests received,
\* the p-th of them served by handler p.
RECURSIVE JoinPath(_)
JoinPath(path) == IF path = <<>> THEN "" ELSE Head(path) \o JoinPath(Tail(path))

Methods == {"GET", "PUT", "DELETE", "POST", "PATCH"}
Paths == {<<"j1">>, <<"j1", "/execute">>, <<"j9", "/execute">>, <<"j1", "/pause">>}

\* the server receives a request
receive ==
    /\ boot = "running"
    /\ Len(args) < NumRequests
    /\ \E m \in Methods, path \in Paths :
         args' = Append(args, [method |-> m, path |-> path])
    /\ UNCHANGED <<boot, pending, config, configFile, threads, execs, store,
                   handlers, sent, fetched>>

\* the method is none of the handler's
notAllowed(p, jobID) ==
    /\ Accepting(p)
    /\ Answer(p, Request("other", jobID, BodyA), Reply(405, {}))
    /\ UNCHANGED env

\* handleJobByID as it was: the whole of the path is the job id, and a POST
\* is an execute request if the path is /jobs/<that id>/execute
handleJobByID_PathIsID(p) ==
    /\ p <= Len(args)
    /\ LET r == args[p]
           jobID == JoinPath(r.path)
       IN CASE r.method = "GET" -> getJob(p, jobID)
            [] r.method = "PUT" -> updateJob(p, jobID, BodyB)
            [] r.method = "DELETE" -> deleteJob(p, jobID)
            [] r.method = "POST" ->
                 IF JoinPath(r.path) = jobID \o "/execute"
                   THEN executeJobHandler(p, jobID)
                   ELSE /\ Accepting(p)
                        /\ Answer(p, Request("other", jobID, BodyA), Reply(404, {}))
                        /\ UNCHANGED env
            [] OTHER -> notAllowed(p, jobID)

\* handleJobByID
handleJobByID(p) ==
    /\ p <= Len(args)
    /\ LET r == args[p]
       IN IF r.method = "POST" /\ HasSuffix(r.path, <<"/execute">>)
            THEN executeJobHandler(p, JoinPath(SubSeq(r.path, 1, Len(r.path) - 1)))
            ELSE LET jobID == JoinPath(r.path)
                 IN CASE r.method = "GET" -> getJob(p, jobID)
                      [] r.method = "PUT" -> updateJob(p, jobID, BodyB)
                      [] r.method = "DELETE" -> deleteJob(p, jobID)
                      [] OTHER -> notAllowed(p, jobID)

InitRoute ==
    /\ boot = "load"
    /\ pending = {}
    /\ jobs = EmptyMap
    /\ cronIDs = EmptyMap
    /\ entries = EmptyMap
    /\ nextID = 0
    /\ jobsFile \in StartFiles
    /\ writeFailed = FALSE
    /\ pc = [p \in Procs |-> "new"]
    /\ req = [p \in Procs |-> NoReq]
    /\ resp = [p \in Procs |-> NoResp]
    /\ snap = [p \in Procs |-> EmptyMap]
    /\ config = DefaultConfig
    /\ configFile = ConfigFileMissing
    /\ threads = [t \in Threads |-> NotStarted]
    /\ execs = <<>>
    /\ args = <<>>
    /\ sent = <<>>
    /\ fetched = <<>>

NextRoute ==
    \/ loadJobs
    \/ scheduleLoaded
    \/ receive
    \/ \E p \in Procs :
         \/ handleJobByID(p)
         \/ updatePut(p)
         \/ scheduleStep(p)
         \/ deleteUnschedule(p)
         \/ deleteRemove(p)
         \/ saveJobsCopy(p)
         \/ saveJobsWrite(p)

SpecRoute == InitRoute /\ [][NextRoute]_vars

(* ------------------------- a file that does not parse ------------------ *)
\* a jobs file that holds records and that json.Unmarshal rejects (one value
\* of a type the Job struct does not take is enough)
FileUnparsed(recs) == [state |-> "corrupt", recs |-> recs]

InitLoss ==
    /\ boot = "load"
    /\ pending = {}
    /\ jobs = EmptyMap
    /\ cronIDs = EmptyMap
    /\ entries = EmptyMap
    /\ nextID = 0
    /\ jobsFile \in {FileOf(<<WithID(BodyA, "j1")>>), FileUnparsed(<<WithID(BodyA, "j1")>>)}
    /\ writeFailed = FALSE
    /\ pc = [p \in Procs |-> "new"]
    /\ req = [p \in Procs |-> NoReq]
    /\ resp = [p \in Procs |-> NoResp]
    /\ snap = [p \in Procs |-> EmptyMap]
    /\ config = DefaultConfig
    /\ configFile = ConfigFileMissing
    /\ threads = [t \in Threads |-> NotStarted]
    /\ execs = <<>>
    /\ Idle

SpecLoss == InitLoss /\ [][NextSave]_vars

(* ======================================================================= *)
(* Claims                                                                  *)
(* ======================================================================= *)
Quiescent == boot = "running" /\ \A p \in Procs : pc[p] \in {"new", "done"}
Arrives(p) == pc[p] = "new" /\ pc'[p] # "new"
EntriesOf(ents, id) == {e \in DOMAIN ents : ents[e].ID = id}
\* the invocations of executeJob among the executions (the others are the
\* sendEmail calls of handleTestEmail)
Invocations == {e \in ExecIds : execs[e].by \in {"cron", "manual"}}

(* ------------------------------- C1 ------------------------------------ *)
\* cronIDs and the engine's entries name each other: every handle of cronIDs
\* is a live entry of its job id and every live entry is the handle of its id
EntriesMatch ==
    /\ \A id \in DOMAIN cronIDs :
         cronIDs[id] \in DOMAIN entries /\ entries[cronIDs[id]].ID = id
    /\ \A e \in DOMAIN entries :
         entries[e].ID \in DOMAIN cronIDs /\ cronIDs[entries[e].ID] = e

\* a step that runs scheduleJob(job): a step of NewApp's loop, or the
\* scheduleJob call of createJob or updateJob
Scheduled(job) ==
    \/ boot = "schedule" /\ \E id \in pending : id \notin pending' /\ jobs[id] = job
    \/ \E p \in Procs : /\ pc[p] \in {"create_schedule", "update_schedule"}
                        /\ pc'[p] # pc[p]
                        /\ req[p].job = job

Replaces ==
    \A id \in DOMAIN cronIDs :
      \A job \in Values(jobs) \cup {req[p].job : p \in Procs} :
        (job.ID = id /\ CronParses(job.Cron) /\ Scheduled(job)) =>
           /\ EntriesOf(entries', id) = {cronIDs'[id]}
           /\ cronIDs[id] \notin DOMAIN entries'
           /\ entries'[cronIDs'[id]] = job

\* C1: in every reachable state the cron engine holds at most one live entry
\* per job id and cronIDs[id] names it; scheduleJob with a valid expression on
\* an id that is registered leaves exactly one live entry for the id, the new
\* one, the old one being gone.
C1_OneRegistrationPerJob == []EntriesMatch /\ [][Replaces]_vars

\* an updateJob has replaced the registration NewApp made for the id
C1_Witness ==
    \E p \in Procs :
      /\ pc[p] = "done" /\ req[p].op = "update" /\ resp[p].code = 200
      /\ req[p].jobID \in DOMAIN cronIDs
      /\ cronIDs[req[p].jobID] = 2
      /\ DOMAIN entries = {2}

(* ------------------------------- C2 ------------------------------------ *)
\* the requests of the run that name id are creates and updates that have
\* returned successfully
OnlyWritersReturned(id) ==
    \A p \in Procs :
      (pc[p] # "new" /\ req[p].jobID = id) =>
         /\ req[p].op \in {"create", "update", "get", "execute"}
         /\ pc[p] = "done"
         /\ resp[p].code \in {200, 201}

\* C2: when every createJob/updateJob request for a job id has returned
\* successfully, the job captured by the id's live registration equals the job
\* stored under the id (stated for the ids that requests carry themselves).
C2_RegistrationMatchesStore ==
    \A id \in (DOMAIN cronIDs) \cap (DOMAIN jobs) \cap ExplicitIds :
      (Quiescent /\ OnlyWritersReturned(id)) => entries[cronIDs[id]] = jobs[id]

(* ------------------------------- C3 ------------------------------------ *)
\* the records of the jobs file are exactly the stored jobs
FileHoldsStore ==
    /\ jobsFile.state = "ok"
    /\ Range(jobsFile.recs) = Values(jobs)
    /\ Len(jobsFile.recs) = Cardinality(DOMAIN jobs)

\* no two requests of the run name the same job id
DistinctIds ==
    \A p, q \in Procs : (p # q /\ pc[p] # "new" /\ pc[q] # "new") => req[p].jobID # req[q].jobID

\* C3: whenever no job mutation is in progress and no file write has failed,
\* the jobs file holds exactly the in-memory job set (stated for the runs
\* whose startup file was parsed or has been rewritten, and whose requests
\* name pairwise distinct job ids).
C3_FileHoldsStoreWhenQuiescent ==
    (Quiescent /\ ~writeFailed /\ jobsFile.state # "corrupt" /\ DistinctIds)
       => FileHoldsStore

(* ------------------------------- C4 ------------------------------------ *)
\* C4: createJob and updateJob with a cron expression that does not parse
\* are answered 400 at once and leave the job map, cronIDs, the engine's
\* entries and the jobs file as they were.
C4_BadCronRejected ==
    [][\A p \in Procs :
         (/\ Arrives(p)
          /\ req'[p].op \in {"create", "update"}
          /\ ~CronParses(req'[p].job.Cron))
         => (/\ pc'[p] = "done"
             /\ resp'[p].code = 400
             /\ UNCHANGED <<jobs, cronIDs, entries, jobsFile>>)]_vars

\* an updateJob of a stored, registered job was rejected for its expression
C4_Witness ==
    \E p \in Procs :
      /\ pc[p] = "done" /\ req[p].op = "update" /\ resp[p].code = 400
      /\ ~CronParses(req[p].job.Cron)
      /\ req[p].jobID \in DOMAIN cronIDs

(* ------------------------------- C5 ------------------------------------ *)
MissingFields(job) ==
    job.Recipients = <<>> \/ job.DashboardUID = "" \/ job.Cron = <<>>

\* C5: createJob and updateJob reject a job whose recipient list is empty or
\* whose dashboard uid or cron expression is missing, and every stored job has
\* a non-empty recipient list.
C5_RequiredFieldsEnforced ==
    /\ \A p \in Procs :
         (pc[p] # "new" /\ req[p].op \in {"create", "update"} /\ MissingFields(req[p].job))
           => (pc[p] = "done" /\ resp[p].code = 400)
    /\ \A id \in DOMAIN jobs : jobs[id].Recipients # <<>>

(* ------------------------------- C6 ------------------------------------ *)
\* C6 as claimed: every stored job has a cron expression that parses
C6_StoredCronParses == \A id \in DOMAIN jobs : CronParses(jobs[id].Cron)

\* C6 as amended: no step but loadJobs puts a job whose expression does not
\* parse into the store, and a registered job's expression parses.
C6_OnlyLoadStoresBadCron ==
    /\ [][\A id \in DOMAIN jobs' :
            \/ CronParses(jobs'[id].Cron)
            \/ id \in DOMAIN jobs /\ jobs[id] = jobs'[id]
            \/ boot = "load"]_vars
    /\ [](\A e \in DOMAIN entries : CronParses(entries[e].Cron))

\* loadJobs has stored a job whose expression does not parse, and a createJob
\* has been served since
C6_Witness ==
    /\ \E id \in DOMAIN jobs : ~CronParses(jobs[id].Cron) /\ id \notin DOMAIN cronIDs
    /\ \E p \in Procs : pc[p] = "done" /\ req[p].op = "create" /\ resp[p].code = 201

(* ------------------------------- C7 ------------------------------------ *)
\* C7: getJob, updateJob with a valid expression, deleteJob and
\* executeJobHandler on an id that is not stored answer 404 and leave the job
\* map, the registrations, the jobs file and the executions as they were.
C7_UnknownIdNotFound ==
    [][\A p \in Procs :
         (/\ Arrives(p)
          /\ req'[p].op \in {"get", "update", "delete", "execute"}
          /\ req'[p].op = "update" => CronParses(req'[p].job.Cron)
          /\ req'[p].jobID \notin DOMAIN jobs)
         => (/\ pc'[p] = "done"
             /\ resp'[p].code = 404
             /\ UNCHANGED <<jobs, cronIDs, entries, jobsFile, execs>>)]_vars

\* a deleteJob and an executeJobHandler were answered 404
C7_Witness ==
    \E p, q \in Procs :
      /\ pc[p] = "done" /\ req[p].op = "delete" /\ resp[p].code = 404
      /\ pc[q] = "done" /\ req[q].op = "execute" /\ resp[q].code = 404
      /\ execs = <<>>

(* ------------------------------- C8 ------------------------------------ *)
\* C8: unscheduleJob(id) leaves id without handle and without entry, changes
\* nothing when id had no handle, and leaves the handle and the entry of every
\* other id, and the job map, as they were.
C8_UnscheduleFrame ==
    [][\A p \in Procs :
         (pc[p] = "delete_unschedule" /\ pc'[p] # pc[p]) =>
           LET id == req[p].jobID
           IN  /\ id \notin DOMAIN cronIDs'
               /\ EntriesOf(entries', id) = {}
               /\ id \notin DOMAIN cronIDs => (cronIDs' = cronIDs /\ entries' = entries)
               /\ DOMAIN cronIDs' = (DOMAIN cronIDs) \ {id}
               /\ \A o \in DOMAIN cronIDs' :
                    /\ cronIDs'[o] = cronIDs[o]
                    /\ cronIDs[o] \in DOMAIN entries'
                    /\ entries'[cronIDs[o]] = entries[cronIDs[o]]
               /\ jobs' = jobs]_vars

\* deleteJob has unscheduled j1, registered by NewApp under entry 1, while
\* another job keeps its registration
C8_Witness ==
    \E p \in Procs :
      /\ pc[p] = "delete_remove" /\ req[p].jobID = "j1"
      /\ DOMAIN entries = {2}
      /\ entries[2].ID # "j1"
      /\ "j1" \in DOMAIN jobs

(* ------------------------------- C9 ------------------------------------ *)
\* every request of the run is a createJob that has returned 201, and no two
\* carry the same id
AllCreatesReturned ==
    /\ \A p \in Procs : pc[p] = "done" /\ req[p].op = "create" /\ resp[p].code = 201
    /\ \A p, q \in Procs : p # q => req[p].jobID # req[q].jobID

\* C9: once concurrent createJob requests with pairwise distinct ids have all
\* returned, listJobs returns every one of their jobs and each id has exactly
\* one registration.
C9_NoLostCreate ==
    AllCreatesReturned =>
      \A p \in Procs :
        /\ req[p].job \in ListResult
        /\ Cardinality(EntriesOf(entries, req[p].jobID)) = 1

\* two creates with distinct ids have returned
C9_Witness == AllCreatesReturned /\ Cardinality(DOMAIN cronIDs) >= NumRequests

(* ------------------------------- C10 ----------------------------------- *)
\* C10: in every invocation of executeJob the send starts only after the
\* render of that invocation succeeded; a failed render means no send and an
\* error returned, and a failed send means an error returned.
C10_RenderThenSend ==
    \A e \in Invocations :
      /\ (execs[e].stage = "smtp" \/ execs[e].smtp \in {"ok", "error"})
            => execs[e].http = "ok"
      /\ execs[e].http \in HTTPOutcomes \ {"ok"}
            => (execs[e].smtp = "none" /\ execs[e].stage = "done" /\ execs[e].err # "")
      /\ execs[e].smtp \in {"error", "nohost"}
            => (execs[e].stage = "done" /\ execs[e].err # "")
      /\ (execs[e].stage = "done" /\ execs[e].err = "")
            => (execs[e].http = "ok" /\ execs[e].smtp = "ok")

\* one execution ended on a render answered with another status than 200,
\* another one rendered and sent
C10_Witness ==
    \E e, f \in Invocations :
      /\ execs[e].stage = "done" /\ execs[e].http = "status" /\ execs[e].err = "render"
      /\ execs[f].stage = "done" /\ execs[f].smtp = "ok" /\ execs[f].err = ""

(* ------------------------------- C11 ----------------------------------- *)
\* the scheduled firings that have ended with an error
FailedFirings ==
    {e \in ExecIds : execs[e].by = "cron" /\ execs[e].stage = "done" /\ execs[e].err # ""}

\* the job is the one captured by the live registration of its id
Registered(job) ==
    /\ job.ID \in DOMAIN cronIDs
    /\ cronIDs[job.ID] \in DOMAIN entries
    /\ entries[cronIDs[job.ID]] = job

\* C11: a scheduled firing that failed in the render stage or in the SMTP
\* stage leaves its job in the store and the registration that fired live and
\* unchanged, however many firings of the job have failed; no step of an
\* execution changes the job map, cronIDs or the engine's entries.
C11_FailedFiringKeepsRegistration ==
    /\ [](\A e \in FailedFirings :
            execs[e].job.ID \in DOMAIN jobs /\ Registered(execs[e].job))
    /\ [][(\E e \in ExecIds : execs'[e] # execs[e])
            => UNCHANGED <<jobs, cronIDs, entries>>]_vars

\* two firings of one job have failed, one in each stage, and the job is
\* still registered
C11_Witness ==
    \E e, f \in FailedFirings :
      /\ execs[e].job = execs[f].job
      /\ execs[e].err = "render" /\ execs[f].err = "send"
      /\ Registered(execs[e].job)

(* ------------------------------- C12 ----------------------------------- *)
\* C12: every invocation of executeJob and every test-email request issues at
\* most one render HTTP request and at most one SMTP send (a test email issues
\* no render request); an error ends the execution, and an execution that has
\* ended issues nothing more.
C12_AtMostOneAttempt ==
    /\ [](\A e \in ExecIds :
            /\ Len(execs[e].rendered) <= 1
            /\ Len(execs[e].mailed) <= 1
            /\ execs[e].by = "test" => execs[e].rendered = <<>>
            /\ execs[e].err # "" => execs[e].stage = "done")
    /\ [][\A e \in ExecIds : execs[e].stage = "done" => execs'[e] = execs[e]]_vars

\* an invocation has ended on a failed render request, its only one, and a
\* test email on a failed send, its only one
C12_Witness ==
    \E e, f \in ExecIds :
      /\ execs[e].by = "manual" /\ execs[e].stage = "done" /\ execs[e].http = "error"
      /\ Len(execs[e].rendered) = 1 /\ execs[e].mailed = <<>>
      /\ execs[f].by = "test" /\ execs[f].stage = "done" /\ execs[f].smtp = "error"
      /\ Len(execs[f].mailed) = 1

(* ------------------------------- C13 ----------------------------------- *)
\* the on-demand executions
OnDemand == {e \in ExecIds : execs[e].by = "manual"}

\* the acknowledgement of executeJobHandler
Acknowledgement == Reply(200, {})

\* C13: executeJobHandler for a stored job id answers in the step that
\* launches the execution, before any stage of it has run, always with the
\* same acknowledgement; no step of any execution changes that response.
C13_AcknowledgedAtOnce ==
    /\ [][\A p \in Procs :
            (Arrives(p) /\ req'[p].op = "execute" /\ req'[p].jobID \in DOMAIN jobs)
            => /\ pc'[p] = "done"
               /\ resp'[p] = Acknowledgement
               /\ Len(execs') = Len(execs) + 1
               /\ execs'[Len(execs')] = Exec(jobs[req'[p].jobID], "manual")]_vars
    /\ [][\A p \in Procs :
            (pc[p] = "done" /\ req[p].op = "execute") => resp'[p] = resp[p]]_vars
    /\ [](\A e \in OnDemand : execs[e].caller = 0)

\* two triggers were acknowledged alike; the execution of one has failed and
\* the execution of the other has not run any stage
C13_Witness ==
    /\ \A p \in Procs :
         pc[p] = "done" /\ req[p].op = "execute" /\ resp[p] = Acknowledgement
    /\ \E e, f \in OnDemand :
         /\ execs[e].stage = "done" /\ execs[e].err # ""
         /\ execs[f].stage = "render_config"

(* ------------------------------- C14 ----------------------------------- *)
\* C14: when an on-demand execution has failed in the render stage or in the
\* SMTP stage, the execute request that launched it was answered with an
\* error.
C14_FailureSurfaced ==
    \A e \in OnDemand :
      (execs[e].stage = "done" /\ execs[e].err # "") =>
         \E p \in Procs :
           /\ pc[p] = "done" /\ req[p].op = "execute"
           /\ req[p].jobID = execs[e].job.ID
           /\ resp[p].code >= 400

(* ------------------------------- C15 ----------------------------------- *)
\* C15: every HTTP request and every SMTP send of an execution is built from
\* the job the execution was launched with, which is the job captured by the
\* entry that fired (scheduled firing) or the job stored under the id when
\* the trigger read it (on-demand trigger); no step, an updateJob or a
\* deleteJob of the id included, changes the job of an execution.
C15_ExecutionUsesItsSnapshot ==
    /\ [](\A e \in Invocations :
            /\ \A i \in 1..Len(execs[e].rendered) : execs[e].rendered[i] = execs[e].job
            /\ \A i \in 1..Len(execs[e].mailed) : execs[e].mailed[i] = execs[e].job)
    /\ [][\A e \in ExecIds : execs'[e].job = execs[e].job]_vars
    /\ [][Len(execs') > Len(execs) =>
            LET new == execs'[Len(execs')]
            IN  /\ new.by = "cron" => \E id \in DOMAIN entries : entries[id] = new.job
                /\ new.by = "manual" => new.job \in Values(jobs)]_vars

\* an on-demand execution launched with the stored job has rendered and is
\* about to send while an updateJob has replaced the stored job; a scheduled
\* firing has sent the job it captured, which the store no longer holds
C15_Witness ==
    \E e \in OnDemand :
         /\ execs[e].stage = "smtp"
         /\ execs[e].rendered = <<WithID(BodyA, "j1")>>
         /\ "j1" \in DOMAIN jobs
         /\ jobs["j1"] = WithID(BodyB, "j1")
         /\ \E f \in Invocations :
              /\ execs[f].by = "cron" /\ execs[f].stage = "done" /\ execs[f].smtp = "ok"
              /\ execs[f].job # jobs["j1"]

(* ------------------------------- C16 ----------------------------------- *)
\* C16: a goroutine that is in a network call (the render request, the
\* dashboard listing, the SMTP send) holds neither app.mu nor app.configMu,
\* in read or in write mode.
C16_NoLockAcrossNetwork ==
    \A t \in Threads : At(t, "net") => threads[t].held = {}

\* one goroutine is in the render request and another in the dashboard
\* listing while no lock is held at all
C16_Witness ==
    \E t, u \in Workers :
      /\ At(t, "net") /\ Instr(t).l = "render"
      /\ At(u, "net") /\ Instr(u).l = "dashboards"
      /\ \A v \in Threads : threads[v].held = {}

(* ------------------------------- C17 ----------------------------------- *)
\* the datum the goroutine is about to read or write is guarded by a mutex it
\* holds, in write mode if it is about to write
Guarded(t) ==
    At(t, "access") =>
      \/ <<GuardOf(Instr(t).l), "w">> \in threads[t].held
      \/ Instr(t).m = "r" /\ <<GuardOf(Instr(t).l), "r">> \in threads[t].held

\* the goroutine does not hold app.mu and app.configMu together
NeverBoth(t) ==
    \A m, n \in {"r", "w"} :
      ~(<<"mu", m>> \in threads[t].held /\ <<"configMu", n>> \in threads[t].held)

\* the data the goroutine's function reads or writes
Touches(t) == {i.l : i \in {j \in Range(Code(threads[t].op)) : j.k = "access"}}

\* no two goroutines are at accesses of one datum of which one is a write
NoRace ==
    \A t, u \in Threads :
      (t # u /\ At(t, "access") /\ At(u, "access") /\ Instr(t).l = Instr(u).l)
        => (Instr(t).m = "r" /\ Instr(u).m = "r")

\* C17 as claimed: app.jobs and app.cronIDs are read and written only under
\* app.mu (write mode for a write), app.config only under app.configMu, and no
\* goroutine holds both mutexes.
C17_AllAccessesLocked ==
    \A t \in Threads : Guarded(t) /\ NeverBoth(t)

\* C17 as amended: the above holds for every handler and every execution;
\* NewApp reads and writes app.config and ranges over app.jobs without the
\* mutex, and while it does no other goroutine runs a function that touches
\* that datum; no two goroutines are ever at conflicting accesses.
C17_LockedOnceServing ==
    /\ \A t \in Workers : Guarded(t)
    /\ \A t \in Threads : NeverBoth(t)
    /\ ~Guarded(Constructor) =>
         \A t \in Workers : Instr(Constructor).l \notin Touches(t)
    /\ NoRace

\* NewApp ranges over app.jobs without app.mu while an execution fired by the
\* cron engine reads app.config under app.configMu
C17_Witness ==
    /\ At(Constructor, "access") /\ Instr(Constructor).l = "jobs"
    /\ threads[Constructor].held = {}
    /\ \E t \in Workers :
         /\ threads[t].op = "executeJob"
         /\ At(t, "access") /\ <<"configMu", "r">> \in threads[t].held

(* ------------------------------- C18 ----------------------------------- *)
\* the config a getConfig has just answered with
Shown(p) == CHOOSE c \in resp'[p].jobs : TRUE
Gets(p) == Arrives(p) /\ req'[p].op = "getConfig"

\* the mask of the claim: nothing for the empty string, four stars for one
\* to four characters, else the first two characters, four stars and the
\* last two characters
FixedMask(s) ==
    IF s = <<>> THEN <<>>
    ELSE IF Len(s) <= 4 THEN Stars(4)
    ELSE SubSeq(s, 1, 2) \o Stars(4) \o SubSeq(s, Len(s) - 1, Len(s))

\* C18: maskString returns "" for the empty string, "****" for every string
\* of 1 to 4 characters, and for a longer string its first two characters, a
\* mask of four '*' whatever the length, and its last two characters (stated
\* of the API key getConfig returns).
C18_MaskIsFixedLength ==
    [][\A p \in Procs :
         Gets(p) => Shown(p).GrafanaAPIKey = FixedMask(config.GrafanaAPIKey)]_vars

(* ------------------------------- C19 ----------------------------------- *)
\* the first two and the last two characters of a secret of more than four
Ends(s) == <<SubSeq(s, 1, 2), SubSeq(s, Len(s) - 1, Len(s))>>

\* C19: for every non-empty stored API key and SMTP password, what getConfig
\* returns differs from the stored secret, and two stored secrets that agree
\* on their first two and last two characters are returned as the same value.
C19_OnlyEndsDisclosed ==
    [][\A p \in Procs :
         Gets(p) =>
           LET key == config.GrafanaAPIKey
               pass == config.SMTPPassword
           IN  /\ key # <<>> => Shown(p).GrafanaAPIKey # key
               /\ pass # <<>> => Shown(p).SMTPPassword # pass
               /\ (Len(key) > 4 /\ Len(pass) > 4 /\ Ends(key) = Ends(pass))
                    => Shown(p).GrafanaAPIKey = Shown(p).SMTPPassword]_vars

(* ------------------------------- C20 ----------------------------------- *)
\* the posted config carries, for both secrets, the masked values getConfig
\* returns for the stored config
PostsMasks(p) ==
    /\ Arrives(p) /\ req'[p].op = "updateConfig"
    /\ req'[p].job.GrafanaAPIKey = maskString(config.GrafanaAPIKey)
    /\ req'[p].job.SMTPPassword = maskString(config.SMTPPassword)

\* C20: an updateConfig whose secret fields carry the masked values of the
\* stored secrets (empty, of 1 to 4 characters, or longer) leaves the stored
\* API key and SMTP password as they were; saveConfig writes the config it
\* copied from the store, and the config file never holds a masked string.
C20_MaskedWriteKeepsSecrets ==
    /\ [][\A p \in Procs :
            PostsMasks(p) => /\ config'.GrafanaAPIKey = config.GrafanaAPIKey
                             /\ config'.SMTPPassword = config.SMTPPassword]_vars
    /\ [][\A p \in Procs :
            (pc[p] = "config_write" /\ pc'[p] = "done" /\ resp'[p].code = 200)
              => configFile' = ConfigFileOf(snap[p])]_vars
    /\ [](/\ ~masked(config.GrafanaAPIKey) /\ ~masked(config.SMTPPassword)
          /\ configFile.state = "ok" =>
               /\ ~masked(configFile.config.GrafanaAPIKey)
               /\ ~masked(configFile.config.SMTPPassword))

\* an updateConfig that posted "****" for a key of 1 to 4 characters and the
\* mask of a longer password has been answered, and the file holds both
\* secrets as they were stored
C20_Witness ==
    \E p \in Procs :
      /\ pc[p] = "done" /\ req[p].op = "updateConfig" /\ resp[p].code = 200
      /\ Len(config.GrafanaAPIKey) \in 1..4 /\ Len(config.SMTPPassword) > 4
      /\ req[p].job.GrafanaAPIKey = Stars(4)
      /\ req[p].job.SMTPPassword = maskString(config.SMTPPassword)
      /\ configFile = ConfigFileOf(config)

(* ------------------------------- C21 ----------------------------------- *)
\* the value is one maskString returns for some secret: "", "****", or two
\* characters, one or more '*' and two characters
Placeholder(v) ==
    \/ v = <<>>
    \/ v = Stars(4)
    \/ Len(v) > 4 /\ \A i \in 3..(Len(v) - 2) : v[i] = "*"

HasStar(v) == \E i \in 1..Len(v) : v[i] = "*"
Updates(p) == Arrives(p) /\ req'[p].op = "updateConfig"

\* C21 as claimed: an updateConfig whose secret field carries a value that is
\* not a masked placeholder of the read path stores exactly that value.
C21_NewSecretReplaces ==
    [][\A p \in Procs :
         Updates(p) =>
           /\ ~Placeholder(req'[p].job.GrafanaAPIKey)
                => config'.GrafanaAPIKey = req'[p].job.GrafanaAPIKey
           /\ ~Placeholder(req'[p].job.SMTPPassword)
                => config'.SMTPPassword = req'[p].job.SMTPPassword]_vars

\* C21 as amended: a posted secret without '*' is stored as it is, each field
\* on its own account; a posted secret with a '*' anywhere in it is taken for
\* a placeholder and the stored secret is kept.
C21_StarlessSecretReplaces ==
    [][\A p \in Procs :
         Updates(p) =>
           /\ config'.GrafanaAPIKey =
                IF HasStar(req'[p].job.GrafanaAPIKey) THEN config.GrafanaAPIKey
                ELSE req'[p].job.GrafanaAPIKey
           /\ config'.SMTPPassword =
                IF HasStar(req'[p].job.SMTPPassword) THEN config.SMTPPassword
                ELSE req'[p].job.SMTPPassword]_vars

\* an updateConfig has replaced the password by a new one while it posted the
\* mask of the API key, and another has posted a key with an asterisk in it,
\* which is not the stored key
C21_Witness ==
    \E p, q \in Procs :
      /\ pc[p] = "done" /\ req[p].op = "updateConfig"
      /\ req[p].job.SMTPPassword = NewSecret /\ config.SMTPPassword = NewSecret
      /\ HasStar(req[p].job.GrafanaAPIKey)
      /\ pc[q] = "done" /\ req[q].op = "updateConfig"
      /\ req[q].job.GrafanaAPIKey = StarSecret /\ config.GrafanaAPIKey # StarSecret

(* ------------------------------- C22 ----------------------------------- *)
\* p is the only request of the run so far, and it has returned
Alone(p) == pc[p] = "done" /\ \A q \in Procs \ {p} : pc[q] = "new"

\* the jobs file, that NewApp found in place, has not been written since
FileAsLoaded == jobsFile = FileOf(<<WithID(BodyA, "j1")>>)

\* C22: a failed write of the jobs file leaves the job map, cronIDs and the
\* engine's entries as the mutation made them and the request is answered as
\* a success; a failed write of the config file leaves app.config as merged.
\* After a single mutation whose write failed the memory holds the mutation
\* and the file does not.
C22_FailedWriteKeepsMutation ==
    /\ [][\A p \in Procs :
            (pc[p] = "save_write" /\ pc'[p] = "done" /\ ~writeFailed /\ writeFailed')
              => /\ UNCHANGED <<jobs, cronIDs, entries>>
                 /\ resp'[p] = Success(req[p])]_vars
    /\ [][\A p \in Procs :
            (pc[p] = "config_write" /\ pc'[p] = "done" /\ resp'[p].code = 500)
              => UNCHANGED <<config, configFile>>]_vars
    /\ [](\A p \in Procs :
            (Alone(p) /\ writeFailed /\ FileAsLoaded) =>
               /\ req[p].op \in {"create", "update"} =>
                    /\ req[p].jobID \in DOMAIN jobs
                    /\ jobs[req[p].jobID] = req[p].job
                    /\ Registered(req[p].job)
                    /\ ~FileHoldsStore
               /\ req[p].op = "delete" =>
                    /\ req[p].jobID \notin DOMAIN jobs
                    /\ req[p].jobID \notin DOMAIN cronIDs
                    /\ ~FileHoldsStore)
    /\ [](\A p \in Procs :
            (Alone(p) /\ req[p].op = "updateConfig" /\ resp[p].code = 500) =>
               /\ config.SMTPPassword = NewSecret
               /\ configFile # ConfigFileOf(config))

\* a deleteJob and an updateConfig have both lost their write: the job is
\* gone from the store and the registrations, the new password is stored,
\* and neither file has changed
C22_Witness ==
    \E p, q \in Procs :
      /\ pc[p] = "done" /\ req[p].op = "delete" /\ resp[p].code = 204
      /\ writeFailed /\ FileAsLoaded
      /\ jobs = EmptyMap /\ cronIDs = EmptyMap /\ entries = EmptyMap
      /\ pc[q] = "done" /\ req[q].op = "updateConfig" /\ resp[q].code = 500
      /\ config.SMTPPassword = NewSecret /\ configFile = ConfigFileMissing

(* ------------------------------- C23 ----------------------------------- *)
\* the file is what saveJobs wrote for the store
Saved ==
    /\ jobsFile.state = "ok"
    /\ Len(jobsFile.recs) = Cardinality(DOMAIN jobs)
    /\ \A id \in DOMAIN jobs : \E i \in 1..Len(jobsFile.recs) :
         jobsFile.recs[i] = Marshal(jobs[id])
Reloads == boot = "load" /\ boot' # "load" /\ Saved

\* C23 as stated: loadJobs into an empty store after saveJobs gives the store
\* that was saved, every field of every job the same.
C23_RoundTrip == [][Reloads => (boot' = "running" /\ jobs' = jobs)]_vars

\* a variables map that is present and empty is absent after the reload
NilIfEmpty(job) ==
    [job EXCEPT !.Variables = IF @ = <<EmptyMap>> THEN <<>> ELSE @]

\* C23: loadJobs into an empty store after saveJobs gives the store that was
\* saved, every field of every job the same, but for a variables map that was
\* present and empty, which is absent afterwards.
C23_RoundTripButEmptyVariables ==
    [][Reloads => /\ boot' = "running"
                  /\ DOMAIN jobs' = DOMAIN jobs
                  /\ \A id \in DOMAIN jobs : jobs'[id] = NilIfEmpty(jobs[id])]_vars

\* two jobs were saved and reloaded: one without panelId and variables, one
\* with both and with two recipients
C23_Witness ==
    /\ boot = "running"
    /\ jobsFile.state = "ok" /\ Len(jobsFile.recs) = 2
    /\ DOMAIN jobs = {"j1", "j2"}
    /\ jobs["j1"].PanelID = <<>> /\ jobs["j1"].Variables = <<>>
    /\ jobs["j2"].PanelID = <<7>> /\ jobs["j2"].Recipients = << <<"b@x", "a@x">> >>
    /\ jobs["j2"].Variables # <<>> /\ DOMAIN jobs["j2"].Variables[1] = {"region", "env"}

(* ------------------------------- C29 ----------------------------------- *)
\* the sequence of strings a variables value stands for
AsSequence(v) == IF v.t = "str" THEN <<v.v>> ELSE [i \in DOMAIN v.v |-> v.v[i].v]

\* C29: a jobs file whose variables values are single strings, arrays of
\* strings or both is decoded, and the job's variables map each name to the
\* sequence of its values, a single string to the sequence of that string.
C29_StringOrArrayDecodes ==
    (boot \in {"running", "failed"} /\ jobsFile \in HandFiles) =>
       /\ boot = "running"
       /\ "j1" \in DOMAIN jobs
       /\ LET given == jobsFile.recs[1]["variables"].v
          IN jobs["j1"].Variables = << [n \in DOMAIN given |-> AsSequence(given[n])] >>

(* ------------------------------- C24 ----------------------------------- *)
\* the message is in embedded mode: multipart/alternative with a
\* multipart/related part that holds an inline part
Embedded(m) ==
    /\ m.type = "multipart/alternative"
    /\ \E i \in 1..Len(m.parts) :
         /\ m.parts[i].type = "multipart/related"
         /\ \E j \in 1..Len(m.parts[i].parts) :
              m.parts[i].parts[j].disposition = <<"inline">>
Delivered == args.fn = "sendEmail" /\ sent # <<>>

\* C24: a job of format html is delivered in embedded mode, a job of format
\* png or pdf in attachment mode (multipart/mixed).
C24_HtmlIsEmbedded ==
    Delivered =>
       /\ args.name = Html => Embedded(sent[1])
       /\ args.name \in {Png, Pdf} => sent[1].type = "multipart/mixed"

(* ------------------------------- C25 ----------------------------------- *)
Built(fn) == args.fn = fn /\ sent # <<>>
Attachments(m) ==
    {i \in 1..Len(m.parts) : /\ m.parts[i].disposition # <<>>
                             /\ Head(m.parts[i].disposition) = "attachment; filename="}
Extension(name) == IF Len(name) < 4 THEN <<>> ELSE SubSeq(name, Len(name) - 3, Len(name))
TypeOf(name) ==
    CASE Extension(name) = <<".", "p", "n", "g">> -> "image/png"
      [] Extension(name) = <<".", "p", "d", "f">> -> "application/pdf"
      [] OTHER -> "application/octet-stream"

\* C25 as stated: the message of Send is multipart/mixed, its first part the
\* text/plain body, followed by exactly one attachment part of the type that
\* goes with the file name, whatever the artifact, an empty one included.
C25_OneAttachmentAlways ==
    Built("Send") =>
       /\ sent[1].type = "multipart/mixed"
       /\ Len(sent[1].parts) = 2
       /\ sent[1].parts[1].type = "text/plain; charset=utf-8"
       /\ sent[1].parts[1].text = args.body
       /\ Attachments(sent[1]) = {2}
       /\ sent[1].parts[2].type = TypeOf(args.name)

\* C25: the message of Send is multipart/mixed and its first part is the
\* text/plain body; for an artifact that is not empty it is followed by
\* exactly one attachment part of the type that goes with the file name, for
\* an empty artifact by nothing.
C25_OneAttachmentUnlessEmpty ==
    Built("Send") =>
       /\ sent[1].type = "multipart/mixed"
       /\ sent[1].parts[1].type = "text/plain; charset=utf-8"
       /\ sent[1].parts[1].text = args.body
       /\ IF args.data = <<>>
            THEN Len(sent[1].parts) = 1
            ELSE /\ Len(sent[1].parts) = 2
                 /\ Attachments(sent[1]) = {2}
                 /\ sent[1].parts[2].type = TypeOf(args.name)

\* Send has built a message whose second part is a .pdf attachment
C25_Witness ==
    /\ Built("Send")
    /\ args.data # <<>>
    /\ HasSuffix(args.name, <<".", "p", "d", "f">>)
    /\ sent[1].parts[2].type = "application/pdf"
    /\ sent[1].parts[2].lines # <<>>

(* ------------------------------- C26 ----------------------------------- *)
RECURSIVE Join(_)
Join(lines) == IF lines = <<>> THEN <<>> ELSE Head(lines) \o Join(Tail(lines))

\* the part of the message that carries the payload in base64, if any
Carriers ==
    IF args.fn = "SendHTML"
    THEN {p \in Range(sent[1].parts[2].parts) : p.id # <<>>}
    ELSE {p \in Range(sent[1].parts) : p.disposition # <<>>}

\* C26: for a payload that is not empty, the base64 body written by Send and
\* by SendHTML has lines of at most 76 characters, all but the last of
\* exactly 76, and the lines put together decode to the payload.
C26_Base64Lines ==
    (sent # <<>> /\ args.fn \in {"Send", "SendHTML"} /\ args.data # <<>>) =>
       /\ Carriers # {}
       /\ \A p \in Carriers :
            /\ \A i \in 1..Len(p.lines) : Len(p.lines[i]) <= 76
            /\ \A i \in 1..(Len(p.lines) - 1) : Len(p.lines[i]) = 76
            /\ p.lines # <<>> /\ p.lines[Len(p.lines)] # <<>>
            /\ DecodeString(Join(p.lines)) = args.data

\* SendHTML has written a payload of 58 bytes: a full line and a short one
\* with padding
C26_Witness ==
    /\ sent # <<>> /\ args.fn = "SendHTML" /\ Len(args.data) = 58
    /\ \E p \in Carriers : /\ Len(p.lines) = 2
                           /\ Len(p.lines[1]) = 76
                           /\ Len(p.lines[2]) = 4
                           /\ p.lines[2][4] = Pad

(* ------------------------------- C27 ----------------------------------- *)
\* the content-id a cid: reference names
Resolves(ref, part) ==
    /\ Head(ref) = "cid:"
    /\ part.id = <<"<">> \o Tail(ref) \o <<">">>
    /\ part.disposition = <<"inline">>

\* C27: the message of SendHTML, whatever the image, an empty one included,
\* has a text/plain part and a multipart/related part whose HTML part refers
\* to the Content-ID of an inline part of that same multipart/related part.
C27_CidResolves ==
    Built("SendHTML") =>
       /\ \E i \in 1..Len(sent[1].parts) : sent[1].parts[i].type = "text/plain; charset=utf-8"
       /\ \E i \in 1..Len(sent[1].parts) :
            LET related == sent[1].parts[i]
            IN /\ related.type = "multipart/related"
               /\ \E h \in Range(related.parts) :
                    /\ h.type = "text/html; charset=utf-8"
                    /\ h.refs # {}
                    /\ \A ref \in h.refs : \E p \in Range(related.parts) : Resolves(ref, p)

(* ------------------------------- C28 ----------------------------------- *)
\* the places of the URL where a query parameter of that name starts
ParamsNamed(url, name) ==
    {i \in 1..(Len(url) - 1) : url[i] \in {"?", "&"} /\ url[i + 1] = name}
\* the URL has exactly one parameter name<value>
HasOnce(url, name, value) ==
    /\ Cardinality(ParamsNamed(url, name)) = 1
    /\ \A i \in ParamsNamed(url, name) : i + 2 <= Len(url) /\ url[i + 2] = value
\* the places where a var-<name>=<value> parameter starts
VarsAt(url, name, value) ==
    {i \in ParamsNamed(url, "var-") :
       i + 4 <= Len(url) /\ url[i + 2] = name /\ url[i + 3] = "=" /\ url[i + 4] = value}

\* C28: every render URL carries the uid and the slug, from, to, width,
\* height and scale of the job; the panelId parameter exactly when the job has
\* a panelId, the kiosk flag exactly when it has none; one var- parameter for
\* each variable and no other.
C28_RenderURL ==
    \A n \in 1..Len(fetched) : args.fn = "renderReport" =>
       LET url == fetched[n]
           job == args.job
           variables == VariablesOf(job)
       IN /\ url[1] = config.GrafanaURL
          /\ url[2] \in {"/render/d/", "/render/d-solo/"}
          /\ <<url[3], url[4], url[5]>> = <<job.DashboardUID, "/", job.Slug>>
          /\ HasOnce(url, "from=", job.From)
          /\ HasOnce(url, "to=", job.To)
          /\ HasOnce(url, "width=", "1920")
          /\ HasOnce(url, "height=", "1080")
          /\ HasOnce(url, "scale=", "1")
          /\ IF job.PanelID = <<7>> THEN HasOnce(url, "panelId=", "7")
             ELSE IF job.PanelID = <<0>> THEN HasOnce(url, "panelId=", "0")
             ELSE ParamsNamed(url, "panelId=") = {}
          /\ (job.PanelID = <<>>) <=> (ParamsNamed(url, "kiosk") # {})
          /\ \A name \in DOMAIN variables :
               Cardinality(VarsAt(url, name, variables[name])) = 1
          /\ Cardinality(ParamsNamed(url, "var-")) = Cardinality(DOMAIN variables)

\* the URLs of a whole dashboard with two variables were built in the two
\* orders of the variables
C28_Witness ==
    /\ args.fn = "renderReport"
    /\ Len(fetched) = 2 /\ fetched[1] # fetched[2]
    /\ args.job.PanelID = <<>>
    /\ ParamsNamed(fetched[1], "kiosk") # {}
    /\ Cardinality(ParamsNamed(fetched[1], "var-")) = 2

(* ------------------------------- C30 ----------------------------------- *)
\* C30: buildDashboardURL gives base/d/<uid>/<slug>?, then viewPanel=<id>&
\* exactly when the job has a panelId, then from=<from>&to=<to>, then one
\* &var-<name>=<value> for each variable, and nothing else.
C30_DashboardURL ==
    \A n \in 1..Len(fetched) : args.fn = "buildDashboardURL" =>
       LET url == fetched[n]
           job == args.job
           variables == VariablesOf(job)
           panel == IF job.PanelID = <<>> THEN 0 ELSE 3
       IN /\ Len(url) = 6 + panel + 5 + 5 * Cardinality(DOMAIN variables)
          /\ SubSeq(url, 1, 6) = <<config.GrafanaURL, "/d/", job.DashboardUID, "/", job.Slug, "?">>
          /\ job.PanelID = <<7>> => SubSeq(url, 7, 9) = <<"viewPanel=", "7", "&">>
          /\ job.PanelID = <<0>> => SubSeq(url, 7, 9) = <<"viewPanel=", "0", "&">>
          /\ SubSeq(url, 7 + panel, 11 + panel) = <<"from=", job.From, "&", "to=", job.To>>
          /\ \A name \in DOMAIN variables :
               \E k \in 0..(Cardinality(DOMAIN variables) - 1) :
                  SubSeq(url, 12 + panel + 5 * k, 16 + panel + 5 * k)
                    = <<"&", "var-", name, "=", variables[name]>>

\* the link of a panel of a dashboard with two variables was built
C30_Witness ==
    /\ args.fn = "buildDashboardURL"
    /\ fetched # <<>>
    /\ args.job.PanelID = <<7>>
    /\ Cardinality(DOMAIN VariablesOf(args.job)) = 2
    /\ Len(fetched[1]) = 24

(* ------------------------------- C31 ----------------------------------- *)
Reloaded(p) == Arrives(p) /\ req'[p].op = "reload"
\* the jobs of the file, as a set of records
FileJobs == IF jobsFile.state = "ok" THEN Range(jobsFile.recs) ELSE {}
\* memory is what the files say: the config, the jobs, and nothing else
MemoryIsFiles ==
    /\ config = FreshConfig
    /\ Values(jobs) = FileJobs
    /\ \A id \in DOMAIN jobs : jobs[id].ID = id
    /\ EntriesMatch
    /\ \A id \in DOMAIN cronIDs : id \in DOMAIN jobs /\ entries[cronIDs[id]] = jobs[id]

\* C31 as stated: after a reload the config, the jobs and the registrations
\* are those of the files, and every job of the file has exactly one
\* registration.
C31_ReloadIsFreshStart ==
    [][\A p \in Procs : Reloaded(p) =>
         /\ MemoryIsFiles'
         /\ \A id \in DOMAIN jobs' : Cardinality(EntriesOf(entries', id)) = 1]_vars

\* C31: after a reload the config, the jobs and the registrations are those
\* of the files; every job of the file whose cron expression parses has
\* exactly one registration, and a job whose expression does not parse has
\* none, as after NewApp.
C31_ReloadIsFreshStartOfParsable ==
    [][\A p \in Procs : Reloaded(p) =>
         /\ MemoryIsFiles'
         /\ \A id \in DOMAIN jobs' :
              Cardinality(EntriesOf(entries', id)) = IF CronParses(jobs'[id].Cron) THEN 1 ELSE 0]_vars

\* a job was created and registered, the files were then edited to hold only
\* j1 and a new password, and a reload has dropped the created job and its
\* registration
C31_Witness ==
    \E p, q \in Procs :
      /\ pc[p] = "done" /\ req[p].op = "create" /\ resp[p].code = 201
      /\ pc[q] = "done" /\ req[q].op = "reload"
      /\ p < q
      /\ DOMAIN jobs = {"j1"} /\ DOMAIN cronIDs = {"j1"}
      /\ Cardinality(DOMAIN entries) = 1
      /\ config.SMTPPassword = NewSecret
      /\ nextID >= 3

(* ------------------------------- C32 ----------------------------------- *)
\* handler p takes up a POST to /jobs/<id>/execute
ExecuteRequested(p, id) ==
    /\ Arrives(p)
    /\ args[p] = [method |-> "POST", path |-> <<id, "/execute">>]

\* C32: a POST to /jobs/{id}/execute for an id of the store launches exactly
\* one execution, of the job stored under id, and is answered with the
\* acknowledgement, not with a not-found error.
C32_ExecuteIsRouted ==
    [][\A p \in Procs : \A id \in DOMAIN jobs : ExecuteRequested(p, id) =>
         /\ req'[p].op = "execute" /\ req'[p].jobID = id
         /\ execs' = Append(execs, Exec(jobs[id], "manual"))
         /\ pc'[p] = "done"
         /\ resp'[p].code = 200]_vars

\* POST /jobs/j1/execute was acknowledged and one execution of j1 launched
C32_Witness ==
    \E p \in Procs :
      /\ pc[p] = "done"
      /\ p <= Len(args) /\ args[p] = [method |-> "POST", path |-> <<"j1", "/execute">>]
      /\ resp[p].code = 200
      /\ Len(execs) = 1 /\ execs[1].job.ID = "j1" /\ execs[1].by = "manual"

(* ------------------------------- C33 ----------------------------------- *)
\* deleteJob(id) of handler p has returned 204 and no createJob for id has
\* been received
Deleted(p, id) ==
    /\ pc[p] = "done" /\ req[p].op = "delete" /\ req[p].jobID = id /\ resp[p].code = 204
    /\ \A q \in Procs : ~(pc[q] # "new" /\ req[q].op = "create" /\ req[q].jobID = id)

\* C33: once deleteJob(id) has returned success, and as long as no createJob
\* for id is received, id is not in the job store and has no registration,
\* also when an updateJob for id ran at the same time.
C33_DeletedStaysDeleted ==
    \A p \in Procs : \A id \in JobIds : Deleted(p, id) =>
       /\ id \notin DOMAIN jobs
       /\ id \notin DOMAIN cronIDs
       /\ EntriesOf(entries, id) = {}

(* ------------------------------- C34 ----------------------------------- *)
\* a createJob, updateJob or deleteJob for id has been received
Mutated(id) ==
    \E q \in Procs : /\ pc[q] # "new"
                     /\ req[q].op \in {"create", "update", "delete"}
                     /\ req[q].jobID = id

\* C34: a job record of the jobs file is still in the file after every step,
\* unless a createJob, updateJob or deleteJob for its own id has been
\* received; this also after a startup at which the file did not parse.
C34_FileKeepsOtherJobs ==
    [][\A r \in Range(jobsFile.recs) :
         (r \notin Range(jobsFile'.recs)) => Mutated(r.ID)]_vars

(* ------------------------------- C35 ----------------------------------- *)
\* handler p takes up a createJob that passes the validation
Creates(p) == Arrives(p) /\ req'[p].op = "create" /\ pc'[p] = "create_schedule"

\* C35: a createJob that is accepted adds one id that was not in the store
\* and leaves every job already stored as it was, whether the request
\* carried its id or had one generated.
C35_CreateAddsNewId ==
    [][\A p \in Procs : Creates(p) =>
         /\ req'[p].jobID \notin DOMAIN jobs
         /\ DOMAIN jobs' = DOMAIN jobs \cup {req'[p].jobID}
         /\ \A id \in DOMAIN jobs : jobs'[id] = jobs[id]]_vars

(* ------------------------------- C36 ----------------------------------- *)
\* the executions of job id that have started and not ended
InFlight(id) == {e \in ExecIds : execs[e].job.ID = id /\ execs[e].stage # "done"}

\* C36: nothing keeps an execution of a job from starting while another
\* execution of that job is in flight: whatever is running, every registered
\* entry can fire and every handler that can take a request can trigger a
\* stored job, and each of the two adds an execution to the ones running.
C36_NoExclusionGuard ==
    /\ \A id \in Firing :
         ENABLED (cronFire(id) /\ Len(execs') = Len(execs) + 1)
    /\ \A p \in Procs, id \in Triggers \cap ExplicitIds :
         (Accepting(p) /\ exists(id)) =>
             ENABLED (executeJobHandler(p, id) /\ Len(execs') = Len(execs) + 1)

\* two executions of j1 are in flight: a firing of the registration that
\* updateJob replaced, still with the job it captured, and a firing of the
\* registration that took its place
C36_Witness ==
    \E e, f \in InFlight("j1") :
         /\ e # f
         /\ execs[e].by = "cron" /\ execs[e].job = WithID(BodyA, "j1")
         /\ execs[f].by = "cron" /\ execs[f].job = WithID(BodyB, "j1")

\* two firings of one registration in flight
C36_TwoFirings ==
    \E e, f \in InFlight("j1") :
         e # f /\ execs[e].by = "cron" /\ execs[f].by = "cron" /\ execs[e].job = execs[f].job

\* a firing and an on-demand execution in flight
C36_FiringAndTrigger ==
    \E e, f \in InFlight("j1") : execs[e].by = "cron" /\ execs[f].by = "manual"


(* ------------------------------- C37 ----------------------------------- *)
\* the goroutine is in Lock or RLock and the mutex is not to be had
Waiting(t) == At(t, "lock") /\ ~ENABLED acquire(t)

\* what holds of the locks in every state: a goroutine asks for a mutex
\* with none in its hands, so it never waits for one holding the other (or
\* the same one), it never holds two, it calls into the cron engine holding
\* at most app.mu, and it has released what it took when it is through
LockDiscipline ==
    \A t \in Threads :
      /\ At(t, "lock") => threads[t].held = {}
      /\ Cardinality(threads[t].held) <= 1
      /\ At(t, "call") => threads[t].held \subseteq {<<"mu", "w">>}
      /\ ~Running(t) => threads[t].held = {}
      /\ Waiting(t) =>
            \E u \in Threads \ {t} :
               /\ threads[u].held # {}
               /\ ~At(u, "lock")
               /\ Running(u)

\* C37: no interleaving of requests and firings deadlocks: the lock
\* discipline above holds in every state, and with network calls, file
\* operations and calls into the cron engine returning, every handler and
\* every execution that has started returns.
C37_EveryRequestReturns ==
    /\ []LockDiscipline
    /\ \A t \in Workers : (threads[t].op # "none") ~> (threads[t].op = "none")

\* a handler waits for app.mu while another one is inside scheduleJob, in
\* its call to AddFunc with the write lock held
C37_Witness ==
    \E t, u \in Workers :
      /\ Waiting(t) /\ Instr(t).l = "mu"
      /\ At(u, "call") /\ Instr(u).l = "AddFunc"
      /\ <<"mu", "w">> \in threads[u].held


(* ------------------------------- C38 ----------------------------------- *)
\* execution e reads app.config for its render, for its send
ReadsForRender(e) == execs[e].stage = "render_config" /\ execs'[e].stage # "render_config"
ReadsForSend(e) == execs[e].stage = "send_config" /\ execs'[e].stage # "send_config"

\* C38: each stage of an execution uses the app.config of the moment it
\* starts, so whatever updateConfig has stored by then and not what was there
\* when the job was scheduled or when the other stage read; and a change of
\* the config leaves the registrations and the captured jobs as they are.
C38_ConfigReadPerStage ==
    [][/\ \A e \in ExecIds :
            /\ ReadsForRender(e) => execs'[e].renderCfg = <<config>>
            /\ ReadsForSend(e) => execs'[e].sendCfg = <<config>>
            /\ ~ReadsForRender(e) => execs'[e].renderCfg = execs[e].renderCfg
            /\ ~ReadsForSend(e) => execs'[e].sendCfg = execs[e].sendCfg
       /\ config' # config =>
            (entries' = entries /\ cronIDs' = cronIDs /\ nextID' = nextID)]_vars

\* a scheduled firing of the job registered at startup rendered with the
\* config of the start and sent with the one an updateConfig stored in
\* between, the updateConfig having returned and the registration being the
\* one of the start
C38_Witness ==
    \E e \in ExecIds :
      /\ execs[e].by = "cron"
      /\ execs[e].smtp = "ok"
      /\ execs[e].renderCfg = <<DefaultConfig>>
      /\ execs[e].sendCfg = <<OtherConfig>>
      /\ nextID = 1
      /\ \E p \in Procs : req[p].op = "updateConfig" /\ pc[p] = "done"


(* ------------------------------- C39 ----------------------------------- *)
\* handler p, serving an updateJob, writes to the store or to the scheduler
UpdateWrites(p) ==
    /\ req[p].op = "update"
    /\ pc[p] \in {"update_put", "update_schedule"}
    /\ pc'[p] # pc[p]

\* the registration of id and the job it captured are what they were
SameRegistration(id) ==
    /\ id \in DOMAIN cronIDs'
    /\ cronIDs'[id] = cronIDs[id]
    /\ cronIDs[id] \in DOMAIN entries =>
          (cronIDs[id] \in DOMAIN entries' /\ entries'[cronIDs[id]] = entries[cronIDs[id]])

\* C39: an updateJob of path id pathId writes under pathId only, and what
\* it stores and registers there has pathId for its id, whatever id the
\* body carried: every other key of the store and of the registrations,
\* the body's id among them, is neither added nor changed.
C39_UpdateKeepsPathId ==
    [][\A p \in Procs : UpdateWrites(p) =>
         LET pathId == req[p].jobID
         IN  /\ DOMAIN jobs' \subseteq DOMAIN jobs \cup {pathId}
             /\ \A id \in DOMAIN jobs \ {pathId} :
                   id \in DOMAIN jobs' /\ jobs'[id] = jobs[id]
             /\ DOMAIN cronIDs' \subseteq DOMAIN cronIDs \cup {pathId}
             /\ \A id \in DOMAIN cronIDs \ {pathId} : SameRegistration(id)
             /\ pathId \in DOMAIN jobs' /\ jobs'[pathId].ID = pathId
             /\ \A n \in DOMAIN entries' \ DOMAIN entries : entries'[n].ID = pathId]_vars

\* PUT /jobs/j1 with a body whose id is that of the other stored job has
\* been answered 200: j1 holds the body with id j1, it is registered, and
\* the other job and its registration are the ones of the start
C39_Witness ==
    \E p \in Procs :
      /\ req[p].op = "update" /\ req[p].jobID = "j1" /\ pc[p] = "done"
      /\ resp[p].code = 200
      /\ DOMAIN jobs = {"j1", GenID(1)}
      /\ jobs["j1"] = WithID(ForeignBody(GenID(1)), "j1")
      /\ Registered(jobs["j1"])
      /\ jobs[GenID(1)] = WithID(BodyA, GenID(1))
      /\ Registered(jobs[GenID(1)])

====
